---- MODULE Spec2Model ----
(***************************************************************************)
(* A model of ormos/rpx: a layer-4 reverse proxy that reads the first      *)
(* bytes of a connection, extracts a service name, resolves it through a   *)
(* stack of tower services (buffer -> fallback -> filter -> constant ->    *)
(* rewrite -> dns -> void) and splices the client to the destination.      *)
(*                                                                         *)
(* Names are sequences of one-character strings, so that suffix tests and  *)
(* regex replacement are computed, not assumed.  Option<T> is a sequence   *)
(* of length 0 (None) or 1 (Some).  A pipeline result is a record with a   *)
(* tag "Some" | "None" | "Err".                                            *)
(***************************************************************************)
EXTENDS Integers, Sequences, FiniteSets, TLC

VARIABLES
    rules,        \* ConfigFile.rules: the rule list of the configuration
    req,          \* the (name, port) the forwarder calls the pipeline with
    stage,        \* where the pipeline call is inside the service stack
    cur,          \* the (name, port) handed to the current stage
    dnsMode,      \* "none" | "srv" | "ip": the race the dns stage is running
    dnsPending,   \* dns clients whose future of the race has not completed
    dnsLog,       \* every DNS query issued for this call
    srvPorts,     \* ports of the SRV records chosen by resolve_srv so far
    result,       \* what the pipeline call resolved to, as seen by forward
    \* one forwarded connection (forward)
    pc,           \* the await the forwarder is at
    ret,          \* "running", or what forward returned: "Ok" | "Err"
    wire,         \* bytes the client has sent that nobody has read yet
    nSent,        \* how many bytes the client has sent (byte k is the number k)
    nRead,        \* how many bytes have been read from the client
    buf,          \* the read-ahead buffer
    active,       \* indexes of the parsers still asked
    parseEnd,     \* how the read-ahead ended: "" | "name" | "noname" | "timeout" | "io"
    elapsed,      \* 30 s have passed since the deadline was started
    elapsedAt,    \* where the forwarder was when they passed
    cancelledAt,  \* where the forwarder was when the deadline cancelled it
    dialed,       \* TcpStream::connect was called
    copyBuf,      \* bytes copy_bidirectional has read and not yet written
    upstream,     \* bytes written to the upstream socket
    shutdownCalled, \* incoming.shutdown() was called
    \* the callers of the shared buffer, counted
    nArrived,     \* forwarders that have reached resolver.poll_ready
    nWaiting,     \* forwarders suspended in poll_ready
    nQueued,      \* requests in the buffer's queue, each holding a permit
    nInflight,    \* calls the worker has dispatched whose future is not complete
    nDone,        \* calls that have completed
    \* the read-ahead, observed
    parsers,      \* listener.parsers(): the kinds configured on the listener, in order
    traffic,      \* the protocol the client speaks: "h1" | "tls" | "other"
    invocations,  \* every parser.parse call: round, parser, input, outcome
    \* the pipeline, observed
    calls,        \* the requests forward has passed to resolver.call, in order
    dnsAnswers,   \* the answers the dns clients' futures have completed with
    \* the listener and its connections (main)
    listening,    \* the accept loop: "accepting", or why it has ended
    conns,        \* per connection: where it is, its request, its response
    served,       \* the connections whose request the worker has dispatched, in order
    workerFailed, \* the buffer's worker has stopped on a poll_ready error
    \* the HTTP/1 parser on one client's bytes (http::Hostname)
    message,      \* the bytes the client is sending
    parsed,       \* what Hostname::parse returned on the bytes received so far
    \* the TLS parsers of concurrent connections (tls::ServiceName)
    hellos,       \* per connection: the ClientHello its client is sending
    instances,    \* the parser instances built so far, by owner
    tconns,       \* per connection: bytes read, and what its parser returned
    \* the configuration file (config::load_config)
    file,         \* the deserialized document: its `listen` and `rules` keys
    loaded,       \* what load_config returned
    \* the process (main)
    process,      \* where main is: binding, joining the listeners, or exited
    listeners,    \* per configured listener: its accept loop
    tasks,        \* per spawned forwarder: its listener and where it is
    \* the two ends of the one forwarded connection
    eof,          \* the client has closed its sending side
    eofReads,     \* reads of the read-ahead that returned 0 bytes
    sockets       \* the sockets of the connection that are open

pipeVars == <<rules, req, stage, cur, dnsMode, dnsPending, dnsLog, srvPorts, result>>

fwdVars == <<pc, ret, wire, nSent, nRead, buf, active, parseEnd, elapsed, elapsedAt,
             cancelledAt, dialed, copyBuf, upstream, shutdownCalled>>

admVars == <<nArrived, nWaiting, nQueued, nInflight, nDone>>

parseVars == <<parsers, traffic, invocations>>

logVars == <<calls, dnsAnswers>>

lsnVars == <<listening, conns, served, workerFailed>>

h1Vars == <<message, parsed>>

tlsVars == <<hellos, instances, tconns>>

cfgVars == <<file, loaded>>

mainVars == <<process, listeners, tasks>>

unitVars == <<h1Vars, tlsVars, cfgVars, mainVars>>

sockVars == <<eof, eofReads, sockets>>

auxVars == <<parseVars, logVars, lsnVars, unitVars, sockVars>>

vars == <<pipeVars, fwdVars, admVars, auxVars>>

----------------------------------------------------------------------------
(* Values *)

None == <<>>
Some(x) == <<x>>
IsSome(o) == Len(o) = 1
Unwrap(o) == o[1]

ResNone == [tag |-> "None", ip |-> "", port |-> 0, err |-> <<>>]
ResSome(ip, port) == [tag |-> "Some", ip |-> ip, port |-> port, err |-> <<>>]
ResErr(e) == [tag |-> "Err", ip |-> "", port |-> 0, err |-> e]

\* str::ends_with
EndsWith(s, suf) ==
    /\ Len(suf) <= Len(s)
    /\ SubSeq(s, Len(s) - Len(suf) + 1, Len(s)) = suf

\* HashMap::insert: the new value replaces an existing one
MapInsert(m, k, v) == [x \in (DOMAIN m) \cup {k} |-> IF x = k THEN v ELSE m[x]]

\* HashMap::get(..).copied().unwrap_or(d)
MapGetOr(m, k, d) == IF k \in DOMAIN m THEN m[k] ELSE d

EmptyMap == <<>>

\* The elements of a sequence
Range(s) == {s[i] : i \in DOMAIN s}

----------------------------------------------------------------------------
(* Rules of the configuration file.  One record shape for every rule type; *)
(* the fields a type does not have are empty.                              *)

Rule(type, variant, name, ports, ips, address, srv, matcher, replacer, names) ==
    [type |-> type, variant |-> variant, name |-> name, ports |-> ports,
     ips |-> ips, address |-> address, srv |-> srv, matcher |-> matcher,
     replacer |-> replacer, names |-> names]

ConstantPort(name, ports) == Rule("constant", "Port", name, ports, <<>>, <<>>, <<>>, <<>>, <<>>, <<>>)
ConstantIp(name, ips) == Rule("constant", "Ip", name, <<>>, ips, <<>>, <<>>, <<>>, <<>>, <<>>)
DnsRule(srv) == Rule("dns", "", <<>>, <<>>, <<>>, <<>>, srv, <<>>, <<>>, <<>>)
FallbackRule(ip, port) == Rule("fallback", "", <<>>, <<>>, <<>>, <<ip, port>>, <<>>, <<>>, <<>>, <<>>)
FilterRule(names) == Rule("filter", "", <<>>, <<>>, <<>>, <<>>, <<>>, <<>>, <<>>, names)
RewriteRule(matcher, replacer) == Rule("rewrite", "", <<>>, <<>>, <<>>, <<>>, <<>>, matcher, replacer, <<>>)

\* A selection that stops at the first rule of another type that follows a
\* rule of type t
RECURSIVE OfTypeContiguous(_, _)
OfTypeContiguous(rs, t) ==
    IF rs = <<>> THEN <<>>
    ELSE IF Head(rs).type # t THEN OfTypeContiguous(Tail(rs), t)
    ELSE LET run == CHOOSE n \in 1..Len(rs) :
                        /\ \A i \in 1..n : rs[i].type = t
                        /\ n < Len(rs) => rs[n + 1].type # t
         IN SubSeq(rs, 1, run)

\* An extend that replaces what an earlier rule gave for the name
ExtendIpsReplacing(ipRules, name, ips) == MapInsert(ipRules, name, ips)

\* rules.iter().filter_map(|rule| match rule { Rule::T(config) => Some(config), .. })
OfType(rs, t) == SelectSeq(rs, LAMBDA r : r.type = t)

----------------------------------------------------------------------------
(* Layer construction: the data each stage holds after Layer::new *)

\* An insert that keeps the value already there (the first binding would win)
PortRulesInsertKeepFirst(portRules, key, to) ==
    IF key \in DOMAIN portRules THEN portRules ELSE MapInsert(portRules, key, to)

\* port_rules.insert((name.clone(), *from), *to): a duplicate key is
\* overwritten (and logged)
PortRulesInsert(portRules, key, to) == MapInsert(portRules, key, to)

\* ports.iter().for_each(|PortBinding(from, to)| port_rules.insert(..))
RECURSIVE InsertBindings(_, _, _)
InsertBindings(portRules, name, bindings) ==
    IF bindings = <<>> THEN portRules
    ELSE InsertBindings(
            PortRulesInsert(portRules, <<name, Head(bindings)[1]>>, Head(bindings)[2]),
            name, Tail(bindings))

\* ip_rules.entry(name.clone()).or_default().extend(ips)
ExtendIps(ipRules, name, ips) ==
    MapInsert(ipRules, name, MapGetOr(ipRules, name, <<>>) \o ips)

RECURSIVE ConstantLayerFold(_, _)
ConstantLayerFold(rs, acc) ==
    IF rs = <<>> THEN acc
    ELSE LET r == Head(rs) IN
         ConstantLayerFold(Tail(rs),
            IF r.variant = "Port"
            THEN [acc EXCEPT !.ports = InsertBindings(@, r.name, r.ports)]
            ELSE [acc EXCEPT !.ips = ExtendIps(@, r.name, r.ips)])

\* constant::Layer::new
ConstantLayerNew(rs) == ConstantLayerFold(rs, [ips |-> EmptyMap, ports |-> EmptyMap])

\* filter::Layer::new: the union of the names of every filter rule
FilterLayerNew(rs) == UNION {Range(rs[i].names) : i \in DOMAIN rs}

\* rewrite::Layer::new: the rules, in configuration order
RewriteLayerNew(rs) == rs

\* dns::Layer::new: one Resolver per dns rule, each with its own srv list
DnsLayerNew(rs) == [i \in DOMAIN rs |-> [srv |-> rs[i].srv]]

\* A choice of the fallback rule that occurs last in the document
LastFallback(rs) == OfType(rs, "fallback")[Len(OfType(rs, "fallback"))].address

\* ConfigFile::validate, the fallback: find_map stops at the first
\* Rule::Fallback ("One fallback is good enough")
FirstFallback(rs) == Head(OfType(rs, "fallback")).address

\* ConfigFile::validate: one optional layer per rule type
Validate(rs) ==
    [dns            |-> IF OfType(rs, "dns") = <<>> THEN None
                        ELSE Some(DnsLayerNew(OfType(rs, "dns"))),
     override_rules |-> IF OfType(rs, "constant") = <<>> THEN None
                        ELSE Some(ConstantLayerNew(OfType(rs, "constant"))),
     rewrite        |-> IF OfType(rs, "rewrite") = <<>> THEN None
                        ELSE Some(RewriteLayerNew(OfType(rs, "rewrite"))),
     fallback       |-> IF OfType(rs, "fallback") = <<>> THEN None
                        ELSE Some(FirstFallback(rs)),
     filter         |-> IF OfType(rs, "filter") = <<>> THEN None
                        ELSE Some(FilterLayerNew(OfType(rs, "filter")))]

config == Validate(rules)

\* A stack built with the dns layer outside the filter layer
StageOrderDnsBeforeFilter == <<"fallback", "dns", "filter", "constant", "rewrite", "void">>

\* A stack built with the rewrite layer outside the filter and constant layers
StageOrderRewriteFirst == <<"fallback", "rewrite", "filter", "constant", "dns", "void">>

\* resolver_stack: buffer(1024), then the optional layers outermost first,
\* around the void leaf
StageOrder == <<"fallback", "filter", "constant", "rewrite", "dns", "void">>

Configured(s) ==
    CASE s = "fallback" -> IsSome(config.fallback)
      [] s = "filter"   -> IsSome(config.filter)
      [] s = "constant" -> IsSome(config.override_rules)
      [] s = "rewrite"  -> IsSome(config.rewrite)
      [] s = "dns"      -> IsSome(config.dns)
      [] OTHER          -> TRUE

\* option_layer: an absent layer is the identity, the call goes to the next
\* layer that is present
StageFrom(k) ==
    StageOrder[CHOOSE i \in k..Len(StageOrder) :
                  /\ Configured(StageOrder[i])
                  /\ \A j \in k..(i - 1) : ~Configured(StageOrder[j])]

FirstStage == StageFrom(1)
InnerOf(s) == StageFrom(1 + CHOOSE i \in DOMAIN StageOrder : StageOrder[i] = s)

----------------------------------------------------------------------------
(* Pure parts of the stages *)

\* A check that wants the name to be one of the configured domains
CheckExact(allowed, name) == \E domain \in allowed : name = domain

\* filter::Check::check: any configured domain is a suffix of the name
Check(allowed, name) == \E domain \in allowed : EndsWith(name, domain)

\* A Fallback::poll that maps only Ok(None) to the default and lets errors through
FallbackPollOnlyNone(default, inner) ==
    IF inner.tag = "None" THEN ResSome(default[1], default[2]) ELSE inner

\* A future that passes Ok(None) on and replaces only an error
FallbackPollKeepsNone(default, inner) ==
    IF inner.tag = "Err" THEN ResSome(default[1], default[2]) ELSE inner

\* Fallback::poll: Ok(Some(v)) is passed on, everything else that is ready
\* (Ok(None) and Err(_)) becomes Ok(Some(default))
FallbackPoll(default, inner) ==
    IF inner.tag = "Some" THEN inner ELSE ResSome(default[1], default[2])

\* A port translation that refuses to translate to port 0
TranslatePortSkipZero(layer, name, port) ==
    IF MapGetOr(layer.ports, <<name, port>>, port) = 0 THEN port
    ELSE MapGetOr(layer.ports, <<name, port>>, port)

\* A port translation that applies only to names that have constant IPs
TranslatePortOnlyWithIps(layer, name, port) ==
    IF MapGetOr(layer.ips, name, <<>>) = <<>> THEN port
    ELSE MapGetOr(layer.ports, <<name, port>>, port)

\* constant::Service::call, the port: ports.get(&request).copied().unwrap_or(request.1)
TranslatePort(layer, name, port) == MapGetOr(layer.ports, <<name, port>>, port)

\* constant::Service::call, the addresses `existing.choose` can return
OverrideIps(layer, name) == Range(MapGetOr(layer.ips, name, <<>>))

\* The regexes modelled are the literal ones (no metacharacter) and the
\* replacers the ones without `$`: the matcher matches where it occurs.
MatchAt(input, matcher, i) ==
    /\ i + Len(matcher) - 1 <= Len(input)
    /\ SubSeq(input, i, i + Len(matcher) - 1) = matcher

IsMatch(matcher, input) == \E i \in 1..(Len(input) + 1) : MatchAt(input, matcher, i)

\* rewrite::Config::apply = Regex::replace: the leftmost match is replaced
\* (Cow::Owned); without a match the input is returned borrowed
Apply(rule, input) ==
    IF ~IsMatch(rule.matcher, input) THEN [owned |-> FALSE, value |-> input]
    ELSE LET i == CHOOSE k \in 1..(Len(input) + 1) :
                      /\ MatchAt(input, rule.matcher, k)
                      /\ \A j \in 1..(k - 1) : ~MatchAt(input, rule.matcher, j)
         IN [owned |-> TRUE,
             value |-> SubSeq(input, 1, i - 1) \o rule.replacer
                       \o SubSeq(input, i + Len(rule.matcher), Len(input))]

\* An apply_all that applies every rule in turn, each to the output of the last
RECURSIVE apply_all_chained(_, _)
apply_all_chained(rs, input) ==
    IF rs = <<>> THEN input
    ELSE apply_all_chained(Tail(rs), Apply(Head(rs), input).value)

\* rewrite::Service::apply_all: find_map takes the first rule that yields
\* Cow::Owned; unwrap_or(input) when none does
RECURSIVE apply_all(_, _)
apply_all(rs, input) ==
    IF rs = <<>> THEN input
    ELSE IF Apply(Head(rs), input).owned THEN Apply(Head(rs), input).value
    ELSE apply_all(Tail(rs), input)

\* A resolver that looks SRV up for every record
should_lookup_srv_always(resolver, record) == TRUE

\* Resolver::should_lookup_srv
should_lookup_srv(resolver, record) ==
    \E domain \in Range(resolver.srv) : EndsWith(record, domain)

\* format!("{}.", record)
Fqdn(record) == Append(record, ".")

----------------------------------------------------------------------------
(* What a DNS server may answer: the environment *)

MaxAnswers == 2

DnsIps == {"ip1", "ip2"}
SrvTargets == {<<"t">>}
SrvPortSet == {0, 6000}

SeqsUpTo(S, n) == UNION {[1..k -> S] : k \in 0..n}

\* lookup_ip: an error, or the addresses found
IpResponses == {[ok |-> FALSE, ips |-> <<>>]}
               \cup {[ok |-> TRUE, ips |-> s] : s \in SeqsUpTo(DnsIps, MaxAnswers)}

\* srv_lookup: an error, or the (target, port) records found
SrvResponses ==
    {[ok |-> FALSE, records |-> <<>>]}
    \cup {[ok |-> TRUE, records |-> s] :
             s \in SeqsUpTo(SrvTargets \X SrvPortSet, MaxAnswers)}

\* what `choose(&mut rng)` may pick of a sequence
Picks(s) == Range(s)

Query(client, kind, name) == [client |-> client, kind |-> kind, name |-> name]
Answer(client, phase, found) == [client |-> client, phase |-> phase, found |-> found]
Pending(client, phase, port) == [client |-> client, phase |-> phase, port |-> port]

----------------------------------------------------------------------------
(* One pipeline call, from forward's poll_ready to the response *)

\* forward: poll_fn(|cx| resolver.poll_ready(cx)).await, then resolver.call:
\* the request is queued for the buffer's worker
Admit ==
    /\ pc = "resolve"
    /\ stage = "idle"
    /\ stage' = "queued"
    /\ cur' = req
    /\ calls' = Append(calls, req)
    /\ UNCHANGED <<fwdVars, admVars>>
    /\ UNCHANGED <<parseVars, dnsAnswers, lsnVars, unitVars, sockVars>>
    /\ UNCHANGED <<rules, req, dnsMode, dnsPending, dnsLog, srvPorts, result>>

\* The buffer's worker takes the request and calls the service stack
WorkerDispatch ==
    /\ stage = "queued"
    /\ stage' = FirstStage
    /\ UNCHANGED <<fwdVars, admVars>>
    /\ UNCHANGED auxVars
    /\ UNCHANGED <<rules, req, cur, dnsMode, dnsPending, dnsLog, srvPorts, result>>

\* fallback::Service::call: always calls inner
FallbackCall ==
    /\ stage = "fallback"
    /\ stage' = InnerOf("fallback")
    /\ UNCHANGED <<fwdVars, admVars>>
    /\ UNCHANGED auxVars
    /\ UNCHANGED <<rules, req, cur, dnsMode, dnsPending, dnsLog, srvPorts, result>>

\* tower Filter with Check as predicate: inner is called only when check is Ok
FilterCall ==
    /\ stage = "filter"
    /\ IF Check(Unwrap(config.filter), cur[1])
       THEN /\ stage' = InnerOf("filter")
            /\ UNCHANGED result
       ELSE /\ stage' = "return"
            /\ result' = ResErr(<<"NotSupported", cur[1]>>)
    /\ UNCHANGED <<fwdVars, admVars>>
    /\ UNCHANGED auxVars
    /\ UNCHANGED <<rules, req, cur, dnsMode, dnsPending, dnsLog, srvPorts>>

\* A constant stage that translates the port but always calls inner
ConstantCallNoShortCircuit ==
    /\ stage = "constant"
    /\ cur' = <<cur[1], TranslatePort(Unwrap(config.override_rules), cur[1], cur[2])>>
    /\ stage' = InnerOf("constant")
    /\ UNCHANGED <<fwdVars, admVars>>
    /\ UNCHANGED auxVars
    /\ UNCHANGED <<rules, req, dnsMode, dnsPending, dnsLog, srvPorts, result>>

\* constant::Service::call
ConstantCall ==
    /\ stage = "constant"
    /\ LET layer == Unwrap(config.override_rules)
           port == TranslatePort(layer, cur[1], cur[2])
           record == cur[1]
       IN IF OverrideIps(layer, record) # {}
          THEN /\ \E ip \in OverrideIps(layer, record) : result' = ResSome(ip, port)
               /\ stage' = "return"
               /\ UNCHANGED cur
          ELSE /\ cur' = <<record, port>>
               /\ stage' = InnerOf("constant")
               /\ UNCHANGED result
    /\ UNCHANGED <<fwdVars, admVars>>
    /\ UNCHANGED auxVars
    /\ UNCHANGED <<rules, req, dnsMode, dnsPending, dnsLog, srvPorts>>

\* rewrite::Service::call
RewriteCall ==
    /\ stage = "rewrite"
    /\ cur' = <<apply_all(Unwrap(config.rewrite), cur[1]), cur[2]>>
    /\ stage' = InnerOf("rewrite")
    /\ UNCHANGED <<fwdVars, admVars>>
    /\ UNCHANGED auxVars
    /\ UNCHANGED <<rules, req, dnsMode, dnsPending, dnsLog, srvPorts, result>>

\* A dns stage that starts the A/AAAA race on every client next to the SRV race
DnsCallSrvAndIp ==
    /\ stage = "dns"
    /\ LET resolvers == Unwrap(config.dns)
           eligible == {i \in DOMAIN resolvers : should_lookup_srv(resolvers[i], cur[1])}
       IN /\ dnsMode' = IF eligible # {} THEN "srv" ELSE "ip"
          /\ dnsPending' = {Pending(i, "srv", 0) : i \in eligible}
                           \cup {Pending(i, "ip", cur[2]) : i \in DOMAIN resolvers}
          /\ dnsLog' = dnsLog \cup {Query(i, "srv", Fqdn(cur[1])) : i \in eligible}
                              \cup {Query(i, "ip", Fqdn(cur[1])) : i \in DOMAIN resolvers}
    /\ stage' = "dns_race"
    /\ UNCHANGED <<fwdVars, admVars>>
    /\ UNCHANGED auxVars
    /\ UNCHANGED <<rules, req, cur, srvPorts, result>>

\* dns::Service::call up to the first poll of the race: resolve_srv when any
\* resolver should look up SRV for the record, resolve_ip otherwise
DnsCall ==
    /\ stage = "dns"
    /\ LET resolvers == Unwrap(config.dns)
           eligible == {i \in DOMAIN resolvers : should_lookup_srv(resolvers[i], cur[1])}
       IN IF eligible # {}
          THEN /\ dnsMode' = "srv"
               /\ dnsPending' = {Pending(i, "srv", 0) : i \in eligible}
               /\ dnsLog' = dnsLog \cup {Query(i, "srv", Fqdn(cur[1])) : i \in eligible}
          ELSE /\ dnsMode' = "ip"
               /\ dnsPending' = {Pending(i, "ip", cur[2]) : i \in DOMAIN resolvers}
               /\ dnsLog' = dnsLog \cup {Query(i, "ip", Fqdn(cur[1])) : i \in DOMAIN resolvers}
    /\ stage' = "dns_race"
    /\ UNCHANGED <<fwdVars, admVars>>
    /\ UNCHANGED auxVars
    /\ UNCHANGED <<rules, req, cur, srvPorts, result>>

\* A future of the race completed with Ok(Some(address)): the race returns
\* it, the other futures are dropped, and Service::call returns it
RaceWon(ip, port) ==
    /\ result' = ResSome(ip, port)
    /\ dnsPending' = {}
    /\ stage' = "return"

\* A race that gives up at the first Ok(None) or Err(_)
RaceEndsOnFirstLoss(p) ==
    /\ dnsPending' = {}
    /\ stage' = InnerOf("dns")
    /\ UNCHANGED result

\* A future of the race completed with Ok(None) or Err(_): the loop goes on;
\* when no future is left the race is Ok(None) and Service::call calls inner
RaceLost(p) ==
    /\ dnsPending' = dnsPending \ {p}
    /\ stage' = IF dnsPending = {p} THEN InnerOf("dns") ELSE stage
    /\ UNCHANGED result

\* Resolver::resolve_ip: lookup_ip answered
ResolveIpDone ==
    /\ stage = "dns_race"
    /\ \E p \in dnsPending : \E resp \in IpResponses :
          /\ p.phase = "ip"
          /\ dnsAnswers' = dnsAnswers \cup {Answer(p.client, "ip", resp.ok /\ resp.ips # <<>>)}
          /\ IF resp.ok /\ resp.ips # <<>>
             THEN \E ip \in Picks(resp.ips) : RaceWon(ip, p.port)
             ELSE RaceLost(p)
    /\ UNCHANGED <<fwdVars, admVars>>
    /\ UNCHANGED <<parseVars, calls, lsnVars, unitVars, sockVars>>
    /\ UNCHANGED <<rules, req, cur, dnsMode, dnsLog, srvPorts>>

\* Resolver::resolve_srv: srv_lookup answered; with a record chosen the
\* target is looked up next
ResolveSrvAnswered ==
    /\ stage = "dns_race"
    /\ \E p \in dnsPending : \E resp \in SrvResponses :
          /\ p.phase = "srv"
          /\ dnsAnswers' = dnsAnswers \cup {Answer(p.client, "srv", resp.ok /\ resp.records # <<>>)}
          /\ IF resp.ok /\ resp.records # <<>>
             THEN \E rec \in Picks(resp.records) :
                    /\ dnsPending' = (dnsPending \ {p}) \cup {Pending(p.client, "target", rec[2])}
                    /\ dnsLog' = dnsLog \cup {Query(p.client, "target", rec[1])}
                    /\ srvPorts' = srvPorts \cup {rec[2]}
                    /\ UNCHANGED <<stage, result>>
             ELSE /\ RaceLost(p)
                  /\ UNCHANGED <<dnsLog, srvPorts>>
    /\ UNCHANGED <<fwdVars, admVars>>
    /\ UNCHANGED <<parseVars, calls, lsnVars, unitVars, sockVars>>
    /\ UNCHANGED <<rules, req, cur, dnsMode>>

\* An address built with the port of the request
SrvAddressRequestPort(ips, srvPort, requestPort) == <<Head(ips), requestPort>>

\* Resolver::resolve_srv: .iter().next().map(|ip| SocketAddr::from((ip, port))),
\* `port` being the SRV record's; the request's port is not looked at
SrvAddress(ips, srvPort, requestPort) == <<Head(ips), srvPort>>

\* Resolver::resolve_srv: lookup_ip of the target answered; the first
\* address is taken, with the port of the SRV record
ResolveSrvTargetDone ==
    /\ stage = "dns_race"
    /\ \E p \in dnsPending : \E resp \in IpResponses :
          /\ p.phase = "target"
          /\ dnsAnswers' = dnsAnswers \cup {Answer(p.client, "target", resp.ok /\ resp.ips # <<>>)}
          /\ IF resp.ok /\ resp.ips # <<>>
             THEN RaceWon(SrvAddress(resp.ips, p.port, cur[2])[1],
                          SrvAddress(resp.ips, p.port, cur[2])[2])
             ELSE RaceLost(p)
    /\ UNCHANGED <<fwdVars, admVars>>
    /\ UNCHANGED <<parseVars, calls, lsnVars, unitVars, sockVars>>
    /\ UNCHANGED <<rules, req, cur, dnsMode, dnsLog, srvPorts>>

\* void::Service::call: ready(Ok(None))
VoidCall ==
    /\ stage = "void"
    /\ result' = ResNone
    /\ stage' = "return"
    /\ UNCHANGED <<fwdVars, admVars>>
    /\ UNCHANGED auxVars
    /\ UNCHANGED <<rules, req, cur, dnsMode, dnsPending, dnsLog, srvPorts>>

\* The response travels back through the futures of the outer layers: only
\* the Fallback future changes it
Respond ==
    /\ stage = "return"
    /\ result' = IF IsSome(config.fallback)
                 THEN FallbackPoll(Unwrap(config.fallback), result)
                 ELSE result
    /\ stage' = "done"
    /\ UNCHANGED <<fwdVars, admVars>>
    /\ UNCHANGED auxVars
    /\ UNCHANGED <<rules, req, cur, dnsMode, dnsPending, dnsLog, srvPorts>>

----------------------------------------------------------------------------
(* The pipeline alone: configurations and requests drawn from small sets *)

NameA == <<"a">>
NameB == <<"b">>
NameBA == <<"b", "a">>

\* the service names a parser may have extracted; <<>> is "no name"
RequestNames == {<<>>, NameA, NameB, NameBA}
\* the local port of the listener (never 0 for a bound socket)
RequestPorts == {80, 443}

ConstantOptions ==
    { <<>>,
      <<ConstantIp(NameA, <<"ip3">>)>>,
      <<ConstantIp(NameA, <<"ip3", "ip4">>), ConstantPort(NameA, <<<<80, 443>>>>)>>,
      <<ConstantPort(NameA, <<<<80, 0>>>>), ConstantIp(NameA, <<"ip3">>)>>,
      <<ConstantPort(NameB, <<<<80, 443>>, <<443, 0>>>>)>>,
      <<ConstantIp(NameA, <<>>)>> }

FilterOptions ==
    { <<>>, <<FilterRule(<<NameA>>)>>, <<FilterRule(<<NameB>>), FilterRule(<<NameBA>>)>> }

FallbackOptions ==
    { <<>>, <<FallbackRule("ipF", 8080)>>, <<FallbackRule("ipF", 0)>> }

RewriteOptions ==
    { <<>>, <<RewriteRule(NameB, NameA)>> }

DnsOptions ==
    { <<>>, <<DnsRule(<<>>)>>, <<DnsRule(<<NameA>>), DnsRule(<<>>)>> }

\* ConfigFile::validate refuses an empty rule list
PipeConfigs ==
    { c \o fi \o fa \o rw \o d :
        c \in ConstantOptions, fi \in FilterOptions, fa \in FallbackOptions,
        rw \in RewriteOptions, d \in DnsOptions } \ {<<>>}

\* the shared buffer's counters, unused while one call is followed
InitAdmIdle ==
    /\ nArrived = 0
    /\ nWaiting = 0
    /\ nQueued = 0
    /\ nInflight = 0
    /\ nDone = 0

\* the listener with no connection accepted yet
InitLsnIdle ==
    /\ listening = "accepting"
    /\ conns = <<>>
    /\ served = <<>>
    /\ workerFailed = FALSE

\* no HTTP/1 parser under study
InitH1Idle ==
    /\ message = <<>>
    /\ parsed = <<>>

\* no TLS parser under study
InitTlsIdle ==
    /\ hellos = <<>>
    /\ instances = <<>>
    /\ tconns = <<>>

\* no configuration file under study
InitCfgIdle ==
    /\ file = <<>>
    /\ loaded = <<>>

\* no process under study
InitMainIdle ==
    /\ process = "idle"
    /\ listeners = <<>>
    /\ tasks = <<>>

InitUnitIdle ==
    /\ InitH1Idle
    /\ InitTlsIdle
    /\ InitCfgIdle
    /\ InitMainIdle

\* nothing observed yet
InitLogs ==
    /\ invocations = {}
    /\ calls = <<>>
    /\ dnsAnswers = {}

\* main: the accepted socket is open and its client has not closed
InitSockets ==
    /\ eof = FALSE
    /\ eofReads = 0
    /\ sockets = {"incoming"}

\* a forwarder whose read-ahead has ended with a name after one byte
InitAtResolve ==
    /\ InitSockets
    /\ pc = "resolve"
    /\ ret = "running"
    /\ wire = <<>>
    /\ nSent = 1
    /\ nRead = 1
    /\ buf = <<1>>
    /\ active = {1}
    /\ parsers = <<"tls">>
    /\ traffic = "tls"
    /\ InitLogs
    /\ parseEnd = "name"
    /\ elapsed = FALSE
    /\ elapsedAt = "none"
    /\ cancelledAt = "none"
    /\ dialed = FALSE
    /\ copyBuf = <<>>
    /\ upstream = <<>>
    /\ shutdownCalled = FALSE
    /\ InitAdmIdle

InitCall ==
    /\ InitAtResolve
    /\ InitLsnIdle
    /\ InitUnitIdle
    /\ req \in RequestNames \X RequestPorts
    /\ stage = "idle"
    /\ cur = req
    /\ dnsMode = "none"
    /\ dnsPending = {}
    /\ dnsLog = {}
    /\ srvPorts = {}
    /\ result = ResNone

InitPipe ==
    /\ rules \in PipeConfigs
    /\ InitCall

NextPipe ==
    \/ Admit
    \/ WorkerDispatch
    \/ FallbackCall
    \/ FilterCall
    \/ ConstantCall
    \/ RewriteCall
    \/ DnsCall
    \/ ResolveIpDone
    \/ ResolveSrvAnswered
    \/ ResolveSrvTargetDone
    \/ VoidCall
    \/ Respond

SpecPipe == InitPipe /\ [][NextPipe]_vars

----------------------------------------------------------------------------
(* What the configuration says, read off the rule list itself *)

ConstantRules == OfType(rules, "constant")

\* every (name, from, to) of the constant/Port rules, in document order
RECURSIVE BindingsOf(_)
BindingsOf(rs) ==
    IF rs = <<>> THEN <<>>
    ELSE [i \in DOMAIN Head(rs).ports |->
             <<Head(rs).name, Head(rs).ports[i][1], Head(rs).ports[i][2]>>]
         \o BindingsOf(Tail(rs))

AllBindings == BindingsOf(ConstantRules)

BindingIndexes(name, port) ==
    {i \in DOMAIN AllBindings : AllBindings[i][1] = name /\ AllBindings[i][2] = port}

SetMax(S) == CHOOSE x \in S : \A y \in S : y <= x
SetMin(S) == CHOOSE x \in S : \A y \in S : x <= y

\* the to_port of the last binding written for (name, port), else port
LastBoundPort(name, port) ==
    IF BindingIndexes(name, port) = {} THEN port
    ELSE AllBindings[SetMax(BindingIndexes(name, port))][3]

\* every IP some constant/Ip rule gives for name
ConfiguredIps(name) ==
    UNION {Range(ConstantRules[i].ips) :
              i \in {j \in DOMAIN ConstantRules : ConstantRules[j].name = name}}

FilterAdmits(name) ==
    \E i \in DOMAIN rules :
        /\ rules[i].type = "filter"
        /\ \E k \in DOMAIN rules[i].names : EndsWith(name, rules[i].names[k])

HasRule(t) == \E i \in DOMAIN rules : rules[i].type = t

FallbackDefault == rules[SetMin({i \in DOMAIN rules : rules[i].type = "fallback"})].address

----------------------------------------------------------------------------
(* Claims about the pipeline *)

\* C4: with a fallback and a filter stage both configured, every finished
\* pipeline call is Some(destination), never an error or None; for a name the
\* filter rejects the destination is the fallback default.
C4_FallbackAbsorbsFilter ==
    (stage = "done" /\ HasRule("fallback") /\ HasRule("filter")) =>
        /\ result.tag = "Some"
        /\ ~FilterAdmits(req[1]) => result = ResSome(FallbackDefault[1], FallbackDefault[2])

C4_Witness ==
    /\ stage = "done"
    /\ HasRule("fallback") /\ HasRule("filter")
    /\ ~FilterAdmits(req[1])
    /\ result = ResSome(FallbackDefault[1], FallbackDefault[2])

\* C5 as stated: whenever a constant rule configures an IP for the name, the
\* call returns one of those IPs with the translated port and issues no DNS
\* query, whatever other stages are configured.
C5_Original ==
    (stage = "done" /\ ConfiguredIps(req[1]) # {}) =>
        /\ result.tag = "Some"
        /\ result.ip \in ConfiguredIps(req[1])
        /\ result.port = LastBoundPort(req[1], req[2])
        /\ dnsLog = {}

\* C5 amended: the same, provided no filter stage is configured or the filter
\* admits the name (the filter sits outside the constant stage).
C5_ConstantShortCircuit ==
    (stage = "done" /\ ConfiguredIps(req[1]) # {}
       /\ (HasRule("filter") => FilterAdmits(req[1]))) =>
        /\ result.tag = "Some"
        /\ result.ip \in ConfiguredIps(req[1])
        /\ result.port = LastBoundPort(req[1], req[2])
        /\ dnsLog = {}

C5_Witness ==
    /\ stage = "done"
    /\ ConfiguredIps(req[1]) # {}
    /\ HasRule("filter") /\ FilterAdmits(req[1])
    /\ HasRule("dns") /\ HasRule("fallback") /\ HasRule("rewrite")
    /\ result.tag = "Some"
    /\ result.ip \in ConfiguredIps(req[1])
    /\ result.port = LastBoundPort(req[1], req[2])
    /\ result.port # req[2]
    /\ dnsLog = {}

\* C6 as stated: when the SRV race yielded no target (so that the dns stage
\* has gone on to inner) an A/AAAA query for the name was made on every client.
C6_Original ==
    (stage = "void" /\ dnsMode = "srv") =>
        \A i \in DOMAIN Unwrap(config.dns) : Query(i, "ip", Fqdn(cur[1])) \in dnsLog

\* C6 amended: when some client is SRV-eligible only the SRV race runs: no
\* A/AAAA query for the name is made, and when that race yields no target the
\* request goes to inner directly.  The A/AAAA race over every client runs
\* only when no client is SRV-eligible; its answer carries the request port.
C6_SrvOrIpNeverBoth ==
    /\ dnsMode = "srv" =>
          /\ \E i \in DOMAIN rules :
                rules[i].type = "dns" /\ \E k \in DOMAIN rules[i].srv : EndsWith(cur[1], rules[i].srv[k])
          /\ \A q \in dnsLog : q.kind # "ip"
    /\ dnsMode = "ip" =>
          /\ \A i \in DOMAIN rules :
                rules[i].type = "dns" => \A k \in DOMAIN rules[i].srv : ~EndsWith(cur[1], rules[i].srv[k])
          /\ \A i \in 1..Len(OfType(rules, "dns")) : Query(i, "ip", Fqdn(cur[1])) \in dnsLog
          /\ (stage = "return" /\ result.tag = "Some") => result.port = cur[2]
    /\ (stage = "void" /\ dnsMode # "none") => dnsPending = {}

C6_Witness ==
    /\ stage = "void"
    /\ dnsMode = "srv"
    /\ Len(OfType(rules, "dns")) = 2
    /\ \A q \in dnsLog : q.kind # "ip"

\* C8 as stated: a finished call never returns a destination with port 0.
C8_Original ==
    (stage = "done" /\ result.tag = "Some") => result.port # 0

\* C8 amended: no stage treats port 0 specially.  The port of a returned
\* destination is the port its stage was given: the last port binding of
\* (name, port) or else the request port for a constant IP, the port the dns
\* stage received for an A/AAAA answer, the port of a chosen SRV record for an
\* SRV answer, the port of the fallback address for the default; 0 included.
C8_PortsPassThrough ==
    (stage \in {"return", "done"} /\ result.tag = "Some") =>
        \/ dnsMode = "none" /\ ConfiguredIps(req[1]) # {}
             /\ result.port = LastBoundPort(req[1], req[2])
        \/ dnsMode = "ip" /\ result.port = LastBoundPort(req[1], req[2])
        \/ dnsMode = "srv" /\ result.port \in srvPorts
        \/ stage = "done" /\ HasRule("fallback")
             /\ result = ResSome(FallbackDefault[1], FallbackDefault[2])

C8_Witness ==
    /\ stage = "done"
    /\ result.tag = "Some"
    /\ result.port = 0
    /\ dnsMode = "none"
    /\ result.ip \in ConfiguredIps(req[1])
    /\ LastBoundPort(req[1], req[2]) = 0

----------------------------------------------------------------------------
(* The rewrite stage over ordered rule lists *)

MaxRewriteRules == 2

RewriteRuleSet ==
    { RewriteRule(NameA, NameB), RewriteRule(NameA, <<"c">>),
      RewriteRule(NameB, <<"c">>), RewriteRule(NameB, NameA),
      RewriteRule(NameA, NameA), RewriteRule(<<>>, <<"d">>) }

RewriteConfigs == SeqsUpTo(RewriteRuleSet, MaxRewriteRules) \ {<<>>}

InitRewrite ==
    /\ rules \in RewriteConfigs
    /\ InitCall

NextRewrite ==
    \/ Admit
    \/ WorkerDispatch
    \/ RewriteCall
    \/ VoidCall
    \/ Respond

SpecRewrite == InitRewrite /\ [][NextRewrite]_vars

RewriteRules == OfType(rules, "rewrite")

\* the rules whose regex matches the name
MatchingRules(name) ==
    {i \in DOMAIN RewriteRules : IsMatch(RewriteRules[i].matcher, name)}

\* C9: the rewrite stage hands inner the name rewritten by the first rule whose
\* regex matches it, applied once to the original name (later rules are
\* ignored, nothing is re-applied to the rewritten name), or the name unchanged
\* when no rule matches; the port is untouched.
C9_FirstMatchingRuleWins ==
    stage = "void" =>
        /\ cur[2] = req[2]
        /\ cur[1] = IF MatchingRules(req[1]) = {} THEN req[1]
                    ELSE Apply(RewriteRules[SetMin(MatchingRules(req[1]))], req[1]).value

\* two rules match the name with different replacements, and the second would
\* also match the rewritten name
C9_Witness ==
    /\ stage = "void"
    /\ Len(RewriteRules) = 2
    /\ MatchingRules(req[1]) = {1, 2}
    /\ cur[1] = Apply(RewriteRules[1], req[1]).value
    /\ cur[1] # Apply(RewriteRules[2], req[1]).value
    /\ IsMatch(RewriteRules[2].matcher, cur[1])
    /\ cur[2] = req[2]

----------------------------------------------------------------------------
(* The constant stage over rule lists with colliding port bindings *)

MaxBindings == 2
MaxConstantRules == 2

BindingSet == {<<80, 443>>, <<80, 8080>>}

ConstantRuleSet ==
    {ConstantPort(NameA, b) : b \in SeqsUpTo(BindingSet, MaxBindings)}
    \cup {ConstantPort(NameB, <<<<80, 443>>>>), ConstantIp(NameA, <<"ip3">>)}

ConstantConfigs == SeqsUpTo(ConstantRuleSet, MaxConstantRules) \ {<<>>}

InitConstant ==
    /\ rules \in ConstantConfigs
    /\ InitCall

NextConstant ==
    \/ Admit
    \/ WorkerDispatch
    \/ ConstantCall
    \/ VoidCall
    \/ Respond

SpecConstant == InitConstant /\ [][NextConstant]_vars

\* C10: when port bindings for the same (name, from_port) collide, within one
\* constant/Port rule or across rules, the layer is built and the binding that
\* occurs last in the configuration gives the port of every request: the port
\* handed to inner, and the port of the address returned for a constant IP.
C10_LaterBindingWins ==
    /\ stage = "void" => cur[2] = LastBoundPort(req[1], req[2])
    /\ (stage \in {"return", "done"} /\ result.tag = "Some") =>
            result.port = LastBoundPort(req[1], req[2])

\* two bindings of the request's (name, port) with different targets collide
C10_Witness ==
    /\ stage = "void"
    /\ Cardinality(BindingIndexes(req[1], req[2])) >= 2
    /\ AllBindings[SetMin(BindingIndexes(req[1], req[2]))][3] # LastBoundPort(req[1], req[2])
    /\ cur[2] = LastBoundPort(req[1], req[2])

\* the same, with the colliding bindings in two different rules
C10_WitnessAcrossRules ==
    /\ stage = "done"
    /\ Len(ConstantRules) = 2
    /\ ConstantRules[1].ports = <<<<80, 443>>>>
    /\ ConstantRules[2].ports = <<<<80, 8080>>>>
    /\ ConstantRules[1].name = req[1] /\ ConstantRules[2].name = req[1]
    /\ req[2] = 80

----------------------------------------------------------------------------
(* forward: one accepted connection *)

MaxBytes == 3
MaxParsers == 2
MaxEofReads == 2

\* what a parser may yield; the TLS parser yields "" for a hello without SNI
ParsedNames == {<<>>, NameA, NameB, NameBA}

\* config::Kind
ParserKinds == {"h1", "tls"}

\* Ok(Some(name)) | Ok(None) | Err(_)
ParseResults == {"ready", "more", "failed"}

\* A conversion that builds the HTTP parser for every kind
ParserForAlwaysHostname(kind) == "Hostname"

\* impl From<&Kind> for Box<dyn Parser>: Kind::H1 is http::Hostname,
\* Kind::Tls is tls::ServiceName
ParserFor(kind) == IF kind = "h1" THEN "Hostname" ELSE "ServiceName"

\* What parse can return on the bytes of a client speaking protocol t.
\* http::Hostname: Err(NotHttp1) unless the buffer starts with a method, then
\* the Host header when a line has it, Ok(None) when not yet.
\* tls::ServiceName: Ok(None) while the acceptor wants more, the SNI (or "")
\* once the hello is accepted, Err(_) when rustls rejects the bytes; bytes
\* that are no TLS are never accepted.
ParseOutcomes(parser, t) ==
    IF parser = "Hostname"
    THEN IF t = "h1" THEN ParseResults ELSE {"failed"}
    ELSE IF t = "tls" THEN ParseResults ELSE {"more", "failed"}

Invocation(ix, parser, input, outcome, name) ==
    [ix |-> ix, parser |-> parser, input |-> input, outcome |-> outcome, name |-> name]

\* the await the forwarder is suspended at, the pipeline's stages included
Position == IF pc = "resolve" THEN stage ELSE pc

\* the forwarder is waiting for something other than itself
Suspended ==
    \/ pc = "parse" /\ active # {} /\ wire = <<>>
    \/ pc = "resolve" /\ stage \in {"queued", "dns_race"}
    \/ pc \in {"dial", "write", "splice", "shutdown"}

\* A deadline that wraps everything up to the splice
DeadlineCoversUntilSplice(position) == position \notin {"splice", "shutdown", "closed"}

\* tokio::time::timeout(duration, parse_service_name(..)): the deadline wraps
\* the read-ahead and nothing else
DeadlineCovers(position) == position = "parse"

\* A match that treats a timeout like "no parser succeeded"
ServiceNameTimeoutAsEmpty(end, name) ==
    IF end = "io" THEN None ELSE IF end \in {"noname", "timeout"} THEN Some(<<>>) ELSE Some(name)

\* A match that gives up when no parser found a name
ServiceNameNoneWithoutName(end, name) ==
    IF end \in {"timeout", "io", "noname"} THEN None ELSE Some(name)

\* forward, `let service_name = match with_deadline.await`: None on timeout
\* and on an I/O error, the empty name when no parser succeeded
ServiceName(end, name) ==
    IF end \in {"timeout", "io"} THEN None
    ELSE IF end = "noname" THEN Some(<<>>)
    ELSE Some(name)

\* A write of the buffer that loses its first byte
WriteAllButFirst(out, bytes) == out \o SubSeq(bytes, 2, Len(bytes))

\* outgoing.write_all(&buf): the whole buffer, in order
WriteAll(out, bytes) == out \o bytes

\* forward: `let mut outgoing = TcpStream::connect(outgoing).await?` is a
\* local of forward, dropped (and so closed) when forward returns
ForwardLocals == {"outgoing"}

\* main: `incoming` is moved into the forwarder's task (`async move`), which
\* ends as soon as forward has returned: the socket is dropped with it
TaskOwned == {"incoming"}

\* A return that leaves the accepted socket to the accept loop
DropOnReturnLocalsOnly(open) == open \ ForwardLocals

\* forward returns and the task that called it ends: what is still open
DropOnReturn(open) == (open \ ForwardLocals) \ TaskOwned

\* the read-ahead is over: the match on its result, then `match service_name`
EndParse(end, name) ==
    /\ parseEnd' = end
    /\ IF IsSome(ServiceName(end, name))
       THEN /\ pc' = "resolve"
            /\ req' = <<Unwrap(ServiceName(end, name)), req[2]>>
       ELSE /\ pc' = "shutdown"
            /\ UNCHANGED req

\* the client writes its next byte
ClientSend ==
    /\ pc # "closed"
    /\ ~eof
    /\ nSent < MaxBytes
    /\ nSent' = nSent + 1
    /\ wire' = Append(wire, nSent + 1)
    /\ UNCHANGED <<pc, ret, nRead, buf, active, parseEnd, elapsed, elapsedAt, cancelledAt,
                   dialed, copyBuf, upstream, shutdownCalled>>
    /\ UNCHANGED <<pipeVars, admVars>>
    /\ UNCHANGED auxVars

\* 30 s pass while the forwarder is suspended
DeadlineElapses ==
    /\ ~elapsed
    /\ Suspended
    /\ elapsed' = TRUE
    /\ elapsedAt' = Position
    /\ UNCHANGED <<pc, ret, wire, nSent, nRead, buf, active, parseEnd, cancelledAt,
                   dialed, copyBuf, upstream, shutdownCalled>>
    /\ UNCHANGED <<pipeVars, admVars>>
    /\ UNCHANGED auxVars

\* Timeout::poll: the wrapped future is pending and the delay has elapsed:
\* Err(Elapsed), handled by the `Err(_)` arm
TimeoutFires ==
    /\ elapsed
    /\ Suspended
    /\ DeadlineCovers(Position)
    /\ cancelledAt' = Position
    /\ EndParse("timeout", <<>>)
    /\ UNCHANGED <<ret, wire, nSent, nRead, buf, active, elapsed, elapsedAt,
                   dialed, copyBuf, upstream, shutdownCalled>>
    /\ UNCHANGED <<rules, stage, cur, dnsMode, dnsPending, dnsLog, srvPorts, result>>
    /\ UNCHANGED admVars
    /\ UNCHANGED auxVars

\* A loop that gives up with an error when no parser is left
ParseNoneActiveFails ==
    /\ pc = "parse"
    /\ active = {}
    /\ EndParse("io", <<>>)
    /\ UNCHANGED <<ret, wire, nSent, nRead, buf, active, elapsed, elapsedAt, cancelledAt,
                   dialed, copyBuf, upstream, shutdownCalled>>
    /\ UNCHANGED <<rules, stage, cur, dnsMode, dnsPending, dnsLog, srvPorts, result>>
    /\ UNCHANGED admVars
    /\ UNCHANGED auxVars

\* parse_service_name: `if active.is_empty() { return Ok(None) }`
ParseNoneActive ==
    /\ pc = "parse"
    /\ active = {}
    /\ EndParse("noname", <<>>)
    /\ UNCHANGED <<ret, wire, nSent, nRead, buf, active, elapsed, elapsedAt, cancelledAt,
                   dialed, copyBuf, upstream, shutdownCalled>>
    /\ UNCHANGED <<rules, stage, cur, dnsMode, dnsPending, dnsLog, srvPorts, result>>
    /\ UNCHANGED admVars
    /\ UNCHANGED auxVars

\* parse_service_name, the `for &ix in active.iter()` loop: the parsers are
\* asked in order and the first Ok(Some(name)) returns, so the parsers after
\* it are not asked in that round
Asked(act, out) == {ix \in act : \A j \in act : j < ix => out[j] # "ready"}

\* A loop that keeps every parser, failed or not
ValidKeepsFailed(act, out) == act

\* Ok(None) => valid.push(ix); Err(_) => the parser is dropped
Valid(act, out) == {ix \in act : out[ix] = "more"}

\* parse_service_name: read_buf appends what is there to the buffer, then
\* every active parser is given the whole buffer: the first Ok(Some(name))
\* ends the loop, Ok(None) keeps the parser, Err(_) drops it
ReadAhead ==
    /\ pc = "parse"
    /\ active # {}
    /\ wire # <<>>
    /\ \E n \in 1..Len(wire) :
          /\ buf' = buf \o SubSeq(wire, 1, n)
          /\ wire' = SubSeq(wire, n + 1, Len(wire))
          /\ nRead' = nRead + n
    /\ \E out \in [active -> ParseResults] : \E name \in ParsedNames :
          /\ \A ix \in active : out[ix] \in ParseOutcomes(ParserFor(parsers[ix]), traffic)
          /\ (\A ix \in active : out[ix] # "ready") => name = <<>>
          /\ invocations' = invocations \cup
                {Invocation(ix, ParserFor(parsers[ix]), buf', out[ix],
                            IF out[ix] = "ready" THEN name ELSE <<>>) : ix \in Asked(active, out)}
          /\ IF \E ix \in active : out[ix] = "ready"
             THEN /\ EndParse("name", name)
                  /\ UNCHANGED active
             ELSE /\ active' = Valid(active, out)
                  /\ UNCHANGED <<pc, req, parseEnd>>
    /\ UNCHANGED <<ret, nSent, elapsed, elapsedAt, cancelledAt, dialed, copyBuf,
                   upstream, shutdownCalled>>
    /\ UNCHANGED <<rules, stage, cur, dnsMode, dnsPending, dnsLog, srvPorts, result>>
    /\ UNCHANGED admVars
    /\ UNCHANGED <<parsers, traffic, logVars, lsnVars, unitVars, sockVars>>

\* parse_service_name: `reader.read_buf(buf).await?` fails
ReadFails ==
    /\ pc = "parse"
    /\ active # {}
    /\ eofReads = 0
    /\ EndParse("io", <<>>)
    /\ UNCHANGED <<ret, wire, nSent, nRead, buf, active, elapsed, elapsedAt, cancelledAt,
                   dialed, copyBuf, upstream, shutdownCalled>>
    /\ UNCHANGED <<rules, stage, cur, dnsMode, dnsPending, dnsLog, srvPorts, result>>
    /\ UNCHANGED admVars
    /\ UNCHANGED auxVars

\* the client closes its sending side: what it has sent stays readable
ClientCloses ==
    /\ pc # "closed"
    /\ ~eof
    /\ eof' = TRUE
    /\ UNCHANGED <<eofReads, sockets>>
    /\ UNCHANGED <<pipeVars, fwdVars, admVars>>
    /\ UNCHANGED <<parseVars, logVars, lsnVars, unitVars>>

\* Parsers that fail when they are asked at end of stream
RoundOutcomesFailAtEof(ix, input) == {"failed"}

\* what a parser asked in a round returns: on a buffer it has been given
\* before, what it returned then; on the empty buffer http::Hostname fails
\* (no method starts it) and tls::ServiceName wants more
RoundOutcomes(ix, input) ==
    IF \E inv \in invocations : inv.ix = ix /\ inv.input = input
    THEN {inv.outcome : inv \in {i \in invocations : i.ix = ix /\ i.input = input}}
    ELSE IF input # <<>> THEN ParseOutcomes(ParserFor(parsers[ix]), traffic)
    ELSE IF ParserFor(parsers[ix]) = "Hostname" THEN {"failed"} ELSE {"more"}

\* parse_service_name at end of stream: read_buf returns Ok(0), which `?`
\* lets through; the buffer is as it was and every active parser is asked
\* again
ReadAheadEof ==
    /\ pc = "parse"
    /\ active # {}
    /\ wire = <<>>
    /\ eof
    /\ eofReads < MaxEofReads
    /\ eofReads' = eofReads + 1
    /\ \E out \in [active -> ParseResults] :
          /\ \A ix \in active : out[ix] \in RoundOutcomes(ix, buf)
          /\ invocations' = invocations \cup
                {Invocation(ix, ParserFor(parsers[ix]), buf, out[ix], <<>>) :
                    ix \in Asked(active, out)}
          /\ IF \E ix \in active : out[ix] = "ready"
             THEN /\ EndParse("name", <<>>)
                  /\ UNCHANGED active
             ELSE /\ active' = Valid(active, out)
                  /\ UNCHANGED <<pc, req, parseEnd>>
    /\ UNCHANGED <<ret, wire, nSent, nRead, buf, elapsed, elapsedAt, cancelledAt,
                   dialed, copyBuf, upstream, shutdownCalled>>
    /\ UNCHANGED <<rules, stage, cur, dnsMode, dnsPending, dnsLog, srvPorts, result>>
    /\ UNCHANGED admVars
    /\ UNCHANGED <<parsers, traffic, logVars, lsnVars, unitVars>>
    /\ UNCHANGED <<eof, sockets>>

\* A forward that returns on None without the else branch
ResolvedNoShutdown ==
    /\ pc = "resolve"
    /\ stage = "done"
    /\ IF result.tag = "Err"
       THEN /\ pc' = "closed" /\ ret' = "Err" /\ UNCHANGED dialed
            /\ sockets' = DropOnReturn(sockets)
       ELSE IF result.tag = "None"
       THEN /\ pc' = "closed" /\ ret' = "Ok" /\ UNCHANGED dialed
            /\ sockets' = DropOnReturn(sockets)
       ELSE pc' = "dial" /\ dialed' = TRUE /\ UNCHANGED <<ret, sockets>>
    /\ UNCHANGED <<wire, nSent, nRead, buf, active, parseEnd, elapsed, elapsedAt,
                   cancelledAt, copyBuf, upstream, shutdownCalled>>
    /\ UNCHANGED <<pipeVars, admVars>>
    /\ UNCHANGED <<parseVars, logVars, lsnVars, unitVars>>
    /\ UNCHANGED <<eof, eofReads>>

\* A forward that dials whenever the pipeline did not fail
ResolvedDialsOnNone ==
    /\ pc = "resolve"
    /\ stage = "done"
    /\ IF result.tag = "Err"
       THEN /\ pc' = "closed" /\ ret' = "Err" /\ UNCHANGED dialed
            /\ sockets' = DropOnReturn(sockets)
       ELSE pc' = "dial" /\ dialed' = TRUE /\ UNCHANGED <<ret, sockets>>
    /\ UNCHANGED <<wire, nSent, nRead, buf, active, parseEnd, elapsed, elapsedAt,
                   cancelledAt, copyBuf, upstream, shutdownCalled>>
    /\ UNCHANGED <<pipeVars, admVars>>
    /\ UNCHANGED <<parseVars, logVars, lsnVars, unitVars>>
    /\ UNCHANGED <<eof, eofReads>>

\* forward: the pipeline's answer: an error returns it (`?`), None goes to the
\* shutdown branch, Some(outgoing) to TcpStream::connect
Resolved ==
    /\ pc = "resolve"
    /\ stage = "done"
    /\ IF result.tag = "Err"
       THEN /\ pc' = "closed" /\ ret' = "Err" /\ UNCHANGED dialed
            /\ sockets' = DropOnReturn(sockets)
       ELSE IF result.tag = "None" THEN pc' = "shutdown" /\ UNCHANGED <<ret, dialed, sockets>>
       ELSE pc' = "dial" /\ dialed' = TRUE /\ UNCHANGED <<ret, sockets>>
    /\ UNCHANGED <<wire, nSent, nRead, buf, active, parseEnd, elapsed, elapsedAt,
                   cancelledAt, copyBuf, upstream, shutdownCalled>>
    /\ UNCHANGED <<pipeVars, admVars>>
    /\ UNCHANGED <<parseVars, logVars, lsnVars, unitVars>>
    /\ UNCHANGED <<eof, eofReads>>

\* TcpStream::connect(outgoing).await succeeded
DialOk ==
    /\ pc = "dial"
    /\ pc' = "write"
    /\ UNCHANGED <<ret, wire, nSent, nRead, buf, active, parseEnd, elapsed, elapsedAt,
                   cancelledAt, dialed, copyBuf, upstream, shutdownCalled>>
    /\ UNCHANGED <<pipeVars, admVars>>
    /\ UNCHANGED <<parseVars, logVars, lsnVars, unitVars>>
    /\ UNCHANGED <<eof, eofReads>>
    /\ sockets' = sockets \cup {"outgoing"}

\* TcpStream::connect(outgoing).await?: the error is returned
DialFails ==
    /\ pc = "dial"
    /\ pc' = "closed"
    /\ ret' = "Err"
    /\ UNCHANGED <<wire, nSent, nRead, buf, active, parseEnd, elapsed, elapsedAt,
                   cancelledAt, dialed, copyBuf, upstream, shutdownCalled>>
    /\ UNCHANGED <<pipeVars, admVars>>
    /\ UNCHANGED <<parseVars, logVars, lsnVars, unitVars>>
    /\ UNCHANGED <<eof, eofReads>>
    /\ sockets' = DropOnReturn(sockets)

\* outgoing.write_all(&buf).await succeeded
WritePrefix ==
    /\ pc = "write"
    /\ upstream' = WriteAll(upstream, buf)
    /\ pc' = "splice"
    /\ UNCHANGED <<ret, wire, nSent, nRead, buf, active, parseEnd, elapsed, elapsedAt,
                   cancelledAt, dialed, copyBuf, shutdownCalled>>
    /\ UNCHANGED <<pipeVars, admVars>>
    /\ UNCHANGED auxVars

\* outgoing.write_all(&buf).await?: an error after part of the buffer
WritePrefixFails ==
    /\ pc = "write"
    /\ \E n \in 0..(Len(buf) - 1) : upstream' = upstream \o SubSeq(buf, 1, n)
    /\ pc' = "closed"
    /\ ret' = "Err"
    /\ UNCHANGED <<wire, nSent, nRead, buf, active, parseEnd, elapsed, elapsedAt,
                   cancelledAt, dialed, copyBuf, shutdownCalled>>
    /\ UNCHANGED <<pipeVars, admVars>>
    /\ UNCHANGED <<parseVars, logVars, lsnVars, unitVars>>
    /\ UNCHANGED <<eof, eofReads>>
    /\ sockets' = DropOnReturn(sockets)

\* copy_bidirectional, client to upstream: read into the copy buffer
SpliceRead ==
    /\ pc = "splice"
    /\ wire # <<>>
    /\ \E n \in 1..Len(wire) :
          /\ copyBuf' = copyBuf \o SubSeq(wire, 1, n)
          /\ wire' = SubSeq(wire, n + 1, Len(wire))
          /\ nRead' = nRead + n
    /\ UNCHANGED <<pc, ret, nSent, buf, active, parseEnd, elapsed, elapsedAt,
                   cancelledAt, dialed, upstream, shutdownCalled>>
    /\ UNCHANGED <<pipeVars, admVars>>
    /\ UNCHANGED auxVars

\* copy_bidirectional, client to upstream: write from the copy buffer
SpliceWrite ==
    /\ pc = "splice"
    /\ copyBuf # <<>>
    /\ \E n \in 1..Len(copyBuf) :
          /\ upstream' = upstream \o SubSeq(copyBuf, 1, n)
          /\ copyBuf' = SubSeq(copyBuf, n + 1, Len(copyBuf))
    /\ UNCHANGED <<pc, ret, wire, nSent, nRead, buf, active, parseEnd, elapsed, elapsedAt,
                   cancelledAt, dialed, shutdownCalled>>
    /\ UNCHANGED <<pipeVars, admVars>>
    /\ UNCHANGED auxVars

\* copy_bidirectional(..).await?: both sides closed, or an error
SpliceEnds ==
    /\ pc = "splice"
    /\ pc' = "closed"
    /\ ret' \in {"Ok", "Err"}
    /\ UNCHANGED <<wire, nSent, nRead, buf, active, parseEnd, elapsed, elapsedAt,
                   cancelledAt, dialed, copyBuf, upstream, shutdownCalled>>
    /\ UNCHANGED <<pipeVars, admVars>>
    /\ UNCHANGED <<parseVars, logVars, lsnVars, unitVars>>
    /\ UNCHANGED <<eof, eofReads>>
    /\ sockets' = DropOnReturn(sockets)

\* incoming.shutdown().await?
Shutdown ==
    /\ pc = "shutdown"
    /\ shutdownCalled' = TRUE
    /\ pc' = "closed"
    /\ ret' \in {"Ok", "Err"}
    /\ UNCHANGED <<wire, nSent, nRead, buf, active, parseEnd, elapsed, elapsedAt,
                   cancelledAt, dialed, copyBuf, upstream>>
    /\ UNCHANGED <<pipeVars, admVars>>
    /\ UNCHANGED <<parseVars, logVars, lsnVars, unitVars>>
    /\ UNCHANGED <<eof, eofReads>>
    /\ sockets' = DropOnReturn(sockets)

FwdConfigs ==
    { <<FallbackRule("ipF", 8080)>>,
      <<FilterRule(<<NameA>>)>>,
      <<RewriteRule(NameB, NameA), DnsRule(<<>>)>>,
      <<ConstantIp(NameA, <<"ip3">>), DnsRule(<<NameA>>)>> }

\* the listeners' parser lists followed through a whole connection
FwdParsers == {<<>>, <<"tls">>, <<"h1", "tls">>}

InitFwd ==
    /\ rules \in FwdConfigs
    /\ req \in {<<>>} \X RequestPorts
    /\ stage = "idle"
    /\ cur = req
    /\ dnsMode = "none"
    /\ dnsPending = {}
    /\ dnsLog = {}
    /\ srvPorts = {}
    /\ result = ResNone
    /\ pc = "parse"
    /\ ret = "running"
    /\ wire = <<>>
    /\ nSent = 0
    /\ nRead = 0
    /\ buf = <<>>
    /\ parsers \in FwdParsers
    /\ traffic = "tls"
    /\ active = DOMAIN parsers
    /\ InitLogs
    /\ InitSockets
    /\ InitUnitIdle
    /\ InitLsnIdle
    /\ parseEnd = ""
    /\ elapsed = FALSE
    /\ elapsedAt = "none"
    /\ cancelledAt = "none"
    /\ dialed = FALSE
    /\ copyBuf = <<>>
    /\ upstream = <<>>
    /\ shutdownCalled = FALSE
    /\ InitAdmIdle

NextFwd ==
    \/ ClientSend
    \/ DeadlineElapses
    \/ TimeoutFires
    \/ ParseNoneActive
    \/ ReadAhead
    \/ ReadFails
    \/ ClientCloses
    \/ ReadAheadEof
    \/ Admit
    \/ WorkerDispatch
    \/ FallbackCall
    \/ FilterCall
    \/ ConstantCall
    \/ RewriteCall
    \/ DnsCall
    \/ ResolveIpDone
    \/ ResolveSrvAnswered
    \/ ResolveSrvTargetDone
    \/ VoidCall
    \/ Respond
    \/ Resolved
    \/ DialOk
    \/ DialFails
    \/ WritePrefix
    \/ WritePrefixFails
    \/ SpliceRead
    \/ SpliceWrite
    \/ SpliceEnds
    \/ Shutdown

SpecFwd == InitFwd /\ [][NextFwd]_vars

----------------------------------------------------------------------------
(* Claims about forward *)

\* the bytes the client sent that have been read, in the order sent
BytesRead == [i \in 1..nRead |-> i]

\* C1: once the connection is in the splice phase, what has been written to
\* the upstream, followed by what the copy has read and not yet written, is
\* exactly the bytes read from the client in order, and it starts with the
\* whole read-ahead buffer: nothing lost, duplicated or reordered.
C1_PrefixPreserved ==
    pc = "splice" =>
        /\ upstream \o copyBuf = BytesRead
        /\ Len(upstream) >= Len(buf)
        /\ SubSeq(upstream, 1, Len(buf)) = buf

\* a splice that has delivered two read-ahead bytes and then a later one
C1_Witness ==
    /\ pc = "splice"
    /\ Len(buf) = 2
    /\ upstream = <<1, 2, 3>>

C3_NoResolveAfterFailedReadAhead ==
    parseEnd \in {"timeout", "io"} =>
        /\ stage = "idle"
        /\ dnsLog = {}
        /\ ~dialed
        /\ upstream = <<>>
        /\ pc \in {"shutdown", "closed"}
        /\ pc = "closed" => shutdownCalled

\* a read-ahead that had read a byte, was cut by the deadline, and has shut down
C3_Witness ==
    /\ parseEnd = "timeout"
    /\ nRead > 0
    /\ shutdownCalled
    /\ pc = "closed"

\* a read-ahead that ended by an I/O error and has shut down
C3_WitnessIo ==
    /\ parseEnd = "io"
    /\ shutdownCalled
    /\ pc = "closed"

----------------------------------------------------------------------------
(* The buffer in front of the pipeline, all its callers counted *)

BufferBound == 1024

MaxWaiting == 2
MaxInflight == 2
MaxDone == 2

\* A buffer that hands out permits without end
PermitAlwaysAvailable(queued) == TRUE

\* ServiceBuilder::buffer(1024): one permit per request in the queue
PermitAvailable(queued) == queued < BufferBound

\* forward: poll_ready gets a permit at once and call queues the request
BufferAdmit ==
    /\ nWaiting = 0
    /\ PermitAvailable(nQueued)
    /\ nArrived' = nArrived + 1
    /\ nQueued' = nQueued + 1
    /\ UNCHANGED <<nWaiting, nInflight, nDone>>
    /\ UNCHANGED <<pipeVars, fwdVars>>
    /\ UNCHANGED auxVars

\* forward: poll_ready is pending, the forwarder is suspended
BufferSuspend ==
    /\ ~PermitAvailable(nQueued)
    /\ nWaiting < MaxWaiting
    /\ nArrived' = nArrived + 1
    /\ nWaiting' = nWaiting + 1
    /\ UNCHANGED <<nQueued, nInflight, nDone>>
    /\ UNCHANGED <<pipeVars, fwdVars>>
    /\ UNCHANGED auxVars

\* forward: a suspended poll_ready gets the permit that was released and
\* call queues the request
BufferWake ==
    /\ nWaiting > 0
    /\ PermitAvailable(nQueued)
    /\ nWaiting' = nWaiting - 1
    /\ nQueued' = nQueued + 1
    /\ UNCHANGED <<nArrived, nInflight, nDone>>
    /\ UNCHANGED <<pipeVars, fwdVars>>
    /\ UNCHANGED auxVars

\* the buffer's worker takes a request off the queue and calls the service
\* stack: the permit is released, the call's future is now the caller's
BufferWorkerDispatch ==
    /\ nQueued > 0
    /\ nInflight < MaxInflight
    /\ nQueued' = nQueued - 1
    /\ nInflight' = nInflight + 1
    /\ UNCHANGED <<nArrived, nWaiting, nDone>>
    /\ UNCHANGED <<pipeVars, fwdVars>>
    /\ UNCHANGED auxVars

\* forward: resolver.call(..).await completes
BufferCallCompletes ==
    /\ nInflight > 0
    /\ nDone < MaxDone
    /\ nInflight' = nInflight - 1
    /\ nDone' = nDone + 1
    /\ UNCHANGED <<nArrived, nWaiting, nQueued>>
    /\ UNCHANGED <<pipeVars, fwdVars>>
    /\ UNCHANGED auxVars

InitBuffer ==
    /\ rules = <<DnsRule(<<>>)>>
    /\ InitAtResolve
    /\ InitLsnIdle
    /\ InitUnitIdle
    /\ req = <<NameA, 80>>
    /\ stage = "idle"
    /\ cur = req
    /\ dnsMode = "none"
    /\ dnsPending = {}
    /\ dnsLog = {}
    /\ srvPorts = {}
    /\ result = ResNone

NextBuffer ==
    \/ BufferAdmit
    \/ BufferSuspend
    \/ BufferWake
    \/ BufferWorkerDispatch
    \/ BufferCallCompletes

SpecBuffer == InitBuffer /\ [][NextBuffer]_vars

----------------------------------------------------------------------------
(* Claims about what forward does with the pipeline's answer *)

\* forward has taken the pipeline's answer
Answered == stage = "done" /\ pc # "resolve"

\* C11 as stated: after an error or None from the pipeline nothing is
\* dialed or written and the forwarder returns only after shutting the
\* client down.
C11_Original ==
    (Answered /\ result.tag \in {"Err", "None"}) =>
        /\ ~dialed
        /\ upstream = <<>>
        /\ pc = "closed" => shutdownCalled

\* C11: after an error or None from the pipeline nothing is dialed and no
\* byte is written; on None the forwarder calls shutdown on the client before
\* it returns; on an error it returns the error at once, without calling
\* shutdown.
C11_NoDialOnErrorOrNone ==
    Answered =>
        /\ result.tag \in {"Err", "None"} => ~dialed /\ upstream = <<>> /\ copyBuf = <<>>
        /\ result.tag = "None" =>
              /\ pc \in {"shutdown", "closed"}
              /\ pc = "closed" => shutdownCalled
        /\ result.tag = "Err" => pc = "closed" /\ ret = "Err" /\ ~shutdownCalled

\* the filter rejected the name, no fallback: forward has returned the error
C11_Witness ==
    /\ Answered
    /\ result.tag = "Err"
    /\ nRead > 0
    /\ pc = "closed"

\* the pipeline answered None and the client has been shut down
C11_WitnessNone ==
    /\ Answered
    /\ result.tag = "None"
    /\ shutdownCalled

----------------------------------------------------------------------------
(* The listener and its connections: main *)

MaxConns == 2

ConnIds == 1..MaxConns

\* every response a call of the stack from stage s on can resolve to
RECURSIVE StageResults(_, _)
StageResults(s, r) ==
    CASE s = "fallback" ->
            {FallbackPoll(Unwrap(config.fallback), x) : x \in StageResults(InnerOf(s), r)}
      [] s = "filter" ->
            IF Check(Unwrap(config.filter), r[1]) THEN StageResults(InnerOf(s), r)
            ELSE {ResErr(<<"NotSupported", r[1]>>)}
      [] s = "constant" ->
            LET layer == Unwrap(config.override_rules)
                port == TranslatePort(layer, r[1], r[2])
            IN IF OverrideIps(layer, r[1]) # {}
               THEN {ResSome(ip, port) : ip \in OverrideIps(layer, r[1])}
               ELSE StageResults(InnerOf(s), <<r[1], port>>)
      [] s = "rewrite" ->
            StageResults(InnerOf(s), <<apply_all(Unwrap(config.rewrite), r[1]), r[2]>>)
      [] s = "dns" ->
            LET srv == \E i \in DOMAIN Unwrap(config.dns) :
                          should_lookup_srv(Unwrap(config.dns)[i], r[1])
            IN {ResSome(ip, p) : ip \in DnsIps, p \in IF srv THEN SrvPortSet ELSE {r[2]}}
               \cup StageResults(InnerOf(s), r)
      [] OTHER -> {ResNone}

\* A stack whose poll_ready reports an error once a call has failed
PollReadyFailsAfterError(earlierError) == IF earlierError THEN "err" ELSE "ok"

\* poll_ready of the stack under the buffer: fallback and void are
\* Poll::Ready(Ok(())) and the others ask their inner service, whatever the
\* earlier calls resolved to
PollReady(earlierError) == "ok"

\* the port of the one listener followed
LsnPorts == {80}

\* a connection before it is accepted
NoConn == [at |-> "none", req |-> <<<<>>, 0>>, res |-> ResNone, ret |-> "running"]

\* main: the spawned task logs forward's error (`if let Err(err) = ..`) and ends
ConnClose(c, ret_) ==
    /\ conns' = [conns EXCEPT ![c].at = "closed", ![c].ret = ret_]
    /\ UNCHANGED listening

\* main: acceptor.accept() returned a connection; its forwarder is spawned
LsnAccept ==
    /\ listening = "accepting"
    /\ \E c \in ConnIds : \E port \in LsnPorts :
          /\ conns[c].at = "none"
          /\ \A d \in ConnIds : d < c => conns[d].at # "none"
          /\ conns' = [conns EXCEPT ![c].at = "parse", ![c].req = <<<<>>, port>>]
    /\ UNCHANGED <<listening, served, workerFailed>>
    /\ UNCHANGED <<pipeVars, fwdVars, admVars, parseVars, logVars, unitVars, sockVars>>

\* main: acceptor.accept() returned Err: `while let Ok(..)` ends the loop
LsnAcceptFails ==
    /\ listening = "accepting"
    /\ listening' = "accept_failed"
    /\ UNCHANGED <<conns, served, workerFailed>>
    /\ UNCHANGED <<pipeVars, fwdVars, admVars, parseVars, logVars, unitVars, sockVars>>

\* forward: the read-ahead timed out or failed: shutdown and return
ConnParseFails ==
    /\ \E c \in ConnIds : \E r \in {"Ok", "Err"} :
          /\ conns[c].at = "parse"
          /\ ConnClose(c, r)
    /\ UNCHANGED <<served, workerFailed>>
    /\ UNCHANGED <<pipeVars, fwdVars, admVars, parseVars, logVars, unitVars, sockVars>>

\* forward: the read-ahead gave a name (or none: ""); poll_ready on the
\* buffer, whose error (the worker has failed) is returned, then call
ConnCall ==
    /\ \E c \in ConnIds : \E name \in RequestNames :
          /\ conns[c].at = "parse"
          /\ IF workerFailed
             THEN ConnClose(c, "Err")
             ELSE /\ conns' = [conns EXCEPT ![c].at = "queued", ![c].req = <<name, @[2]>>]
                  /\ UNCHANGED listening
    /\ UNCHANGED <<served, workerFailed>>
    /\ UNCHANGED <<pipeVars, fwdVars, admVars, parseVars, logVars, unitVars, sockVars>>

\* whether a call entering the stack at stage s awaits the dns stage's
\* lookups: the filter admits it and no constant IP answers it first
RECURSIVE AwaitsDns(_, _)
AwaitsDns(s, r) ==
    CASE s = "fallback" -> AwaitsDns(InnerOf(s), r)
      [] s = "filter" ->
            Check(Unwrap(config.filter), r[1]) /\ AwaitsDns(InnerOf(s), r)
      [] s = "constant" ->
            LET layer == Unwrap(config.override_rules)
            IN /\ OverrideIps(layer, r[1]) = {}
               /\ AwaitsDns(InnerOf(s), <<r[1], TranslatePort(layer, r[1], r[2])>>)
      [] s = "rewrite" ->
            AwaitsDns(InnerOf(s), <<apply_all(Unwrap(config.rewrite), r[1]), r[2]>>)
      [] s = "dns" -> TRUE
      [] OTHER -> FALSE

\* A worker that drives each response to its end before it takes the next
\* request
WorkerHeldByDns(cs) == \E c \in DOMAIN cs : cs[c].at = "dns_wait"

\* dns::Service::call only builds the future (`Box::pin(async move { .. })`)
\* and the buffer's worker hands it to the caller: no dispatched call holds
\* the worker
WorkerHeld(cs) == FALSE

\* the buffer's worker takes the request of connection c: it polls the stack
\* ready, and stops for good on an error; else it calls the stack and the
\* caller polls the response, which is ready unless it awaits a DNS answer
LsnWorkerServeConn(c) ==
    /\ ~workerFailed
    /\ ~WorkerHeld(conns)
    /\ conns[c].at = "queued"
    /\ IF PollReady(\E d \in Range(served) : conns[d].res.tag = "Err") = "ok"
       THEN /\ IF AwaitsDns(FirstStage, conns[c].req)
               THEN conns' = [conns EXCEPT ![c].at = "dns_wait"]
               ELSE \E x \in StageResults(FirstStage, conns[c].req) :
                       conns' = [conns EXCEPT ![c].at = "resolved", ![c].res = x]
            /\ served' = Append(served, c)
            /\ UNCHANGED workerFailed
       ELSE /\ workerFailed' = TRUE
            /\ conns' = [conns EXCEPT ![c].at = "resolved", ![c].res = ResErr(<<"ServiceError">>)]
            /\ UNCHANGED served
    /\ UNCHANGED listening
    /\ UNCHANGED <<pipeVars, fwdVars, admVars, parseVars, logVars, unitVars, sockVars>>

LsnWorkerServe == \E c \in ConnIds : LsnWorkerServeConn(c)

\* the dns stage's race of a suspended call has ended, with an address or
\* without: the response is ready
ConnDnsAnswered ==
    /\ \E c \in ConnIds :
          /\ conns[c].at = "dns_wait"
          /\ \E x \in StageResults(FirstStage, conns[c].req) :
                conns' = [conns EXCEPT ![c].at = "resolved", ![c].res = x]
    /\ UNCHANGED <<listening, served, workerFailed>>
    /\ UNCHANGED <<pipeVars, fwdVars, admVars, parseVars, logVars, unitVars, sockVars>>

\* forward: what it does with the response
ConnResolved ==
    /\ \E c \in ConnIds :
          /\ conns[c].at = "resolved"
          /\ IF conns[c].res.tag = "Err" THEN ConnClose(c, "Err")
             ELSE IF conns[c].res.tag = "None" THEN \E r \in {"Ok", "Err"} : ConnClose(c, r)
             ELSE conns' = [conns EXCEPT ![c].at = "dial"] /\ UNCHANGED listening
    /\ UNCHANGED <<served, workerFailed>>
    /\ UNCHANGED <<pipeVars, fwdVars, admVars, parseVars, logVars, unitVars, sockVars>>

\* forward: connect and write_all: on to the splice, or an error returned
ConnDial ==
    /\ \E c \in ConnIds :
          /\ conns[c].at = "dial"
          /\ \/ conns' = [conns EXCEPT ![c].at = "splice"] /\ UNCHANGED listening
             \/ ConnClose(c, "Err")
    /\ UNCHANGED <<served, workerFailed>>
    /\ UNCHANGED <<pipeVars, fwdVars, admVars, parseVars, logVars, unitVars, sockVars>>

\* forward: copy_bidirectional ended, with or without an error
ConnSpliceEnds ==
    /\ \E c \in ConnIds : \E r \in {"Ok", "Err"} :
          /\ conns[c].at = "splice"
          /\ ConnClose(c, r)
    /\ UNCHANGED <<served, workerFailed>>
    /\ UNCHANGED <<pipeVars, fwdVars, admVars, parseVars, logVars, unitVars, sockVars>>

LsnConfigs ==
    { <<FilterRule(<<NameA>>), ConstantIp(NameA, <<"ip3">>)>>,
      <<FilterRule(<<NameA>>), FallbackRule("ipF", 8080)>>,
      <<RewriteRule(NameB, NameA), ConstantIp(NameA, <<"ip3">>)>>,
      <<FilterRule(<<NameA>>), ConstantIp(NameA, <<"ip3">>), DnsRule(<<>>)>> }

InitListener ==
    /\ rules \in LsnConfigs
    /\ InitAtResolve
    /\ InitUnitIdle
    /\ req = <<NameA, 80>>
    /\ stage = "idle"
    /\ cur = req
    /\ dnsMode = "none"
    /\ dnsPending = {}
    /\ dnsLog = {}
    /\ srvPorts = {}
    /\ result = ResNone
    /\ listening = "accepting"
    /\ conns = [c \in ConnIds |-> NoConn]
    /\ served = <<>>
    /\ workerFailed = FALSE

NextListener ==
    \/ LsnAccept
    \/ LsnAcceptFails
    \/ ConnParseFails
    \/ ConnCall
    \/ LsnWorkerServe
    \/ ConnDnsAnswered
    \/ ConnResolved
    \/ ConnDial
    \/ ConnSpliceEnds

SpecListener == InitListener /\ [][NextListener]_vars

\* The responses listed by StageResults are those the stage actions of one
\* call can end with
StageResultsCoverCall == stage = "done" => result \in StageResults(FirstStage, req)

----------------------------------------------------------------------------
(* Claims about the filter stage *)

\* C13: a step of the filter stage hands the request, name and port
\* unchanged, to its inner service exactly when some suffix of some filter
\* rule is a suffix of the name; otherwise it resolves to the error
\* NotSupported(name), without calling inner and so without any DNS query.
C13_FilterBySuffix ==
    [][stage = "filter" =>
          IF FilterAdmits(cur[1])
          THEN /\ stage' = InnerOf("filter")
               /\ cur' = cur
               /\ result' = result
          ELSE /\ stage' = "return"
               /\ result' = ResErr(<<"NotSupported", cur[1]>>)
               /\ result'.tag # "None"
               /\ dnsLog' = dnsLog]_vars

\* the filter has rejected a name that ends with none of its suffixes
C13_Witness ==
    /\ HasRule("filter")
    /\ ~FilterAdmits(NameB)
    /\ cur[1] = NameB
    /\ stage = "return"
    /\ result = ResErr(<<"NotSupported", NameB>>)

\* the filter has passed on a name longer than the suffix it ends with
C13_WitnessAdmitted ==
    /\ HasRule("filter")
    /\ ~HasRule("fallback")
    /\ cur = <<NameBA, 443>>
    /\ \A i \in DOMAIN rules : rules[i].type = "filter" => rules[i].names = <<NameA>>
    /\ stage = InnerOf("filter")

----------------------------------------------------------------------------
(* Claims about the read-ahead and the call that follows it *)

\* the forwarder has left the resolve step
PastResolve == pc \notin {"parse", "resolve"}

\* C15: the pipeline is called at most once per connection; when the
\* read-ahead ended without timeout or I/O error it is called exactly once,
\* with the listener's local port and the name a parser returned, or the
\* empty name when no parser returned one.
C15_CallsPipelineOnce ==
    /\ Len(calls) <= 1
    /\ (parseEnd \in {"name", "noname"} /\ PastResolve) => Len(calls) = 1
    /\ \A i \in DOMAIN calls :
          /\ calls[i][2] = req[2]
          /\ parseEnd \in {"name", "noname"}
          /\ parseEnd = "noname" => calls[i][1] = <<>> /\ active = {}
          /\ parseEnd = "name" =>
                \E inv \in invocations : inv.outcome = "ready" /\ inv.name = calls[i][1]

\* every parser failed, the pipeline was called with the empty name, and the
\* fallback's default destination is being spliced to
C15_Witness ==
    /\ parseEnd = "noname"
    /\ nRead > 0
    /\ calls = << <<<<>>, req[2]>> >>
    /\ HasRule("fallback")
    /\ result = ResSome("ipF", 8080)
    /\ pc = "splice"

----------------------------------------------------------------------------
(* The read-ahead alone, for every parser list and every kind of client *)

Traffics == {"h1", "tls", "other"}

InitParse ==
    /\ rules = <<FallbackRule("ipF", 8080)>>
    /\ req = <<<<>>, 80>>
    /\ stage = "idle"
    /\ cur = req
    /\ dnsMode = "none"
    /\ dnsPending = {}
    /\ dnsLog = {}
    /\ srvPorts = {}
    /\ result = ResNone
    /\ pc = "parse"
    /\ ret = "running"
    /\ wire = <<>>
    /\ nSent = 0
    /\ nRead = 0
    /\ buf = <<>>
    /\ parsers \in SeqsUpTo(ParserKinds, MaxParsers)
    /\ traffic \in Traffics
    /\ active = DOMAIN parsers
    /\ InitLogs
    /\ InitSockets
    /\ InitUnitIdle
    /\ InitLsnIdle
    /\ parseEnd = ""
    /\ elapsed = FALSE
    /\ elapsedAt = "none"
    /\ cancelledAt = "none"
    /\ dialed = FALSE
    /\ copyBuf = <<>>
    /\ upstream = <<>>
    /\ shutdownCalled = FALSE
    /\ InitAdmIdle

NextParse ==
    \/ ClientSend
    \/ DeadlineElapses
    \/ TimeoutFires
    \/ ParseNoneActive
    \/ ReadAhead
    \/ ReadFails
    \/ ClientCloses
    \/ ReadAheadEof

SpecParse == InitParse /\ [][NextParse]_vars

\* parser ix has returned Failed / Ready
HasFailed(ix) == \E inv \in invocations : inv.ix = ix /\ inv.outcome = "failed"
ReadyInvocations == {inv \in invocations : inv.outcome = "ready"}

\* the buffers the parsers were given, round after round
RoundInputs == {inv.input : inv \in invocations}

\* the buffer of the round after the one whose buffer was b, if there was one
NextRoundInputs(b) ==
    {c \in RoundInputs : /\ Len(c) > Len(b)
                         /\ \A d \in RoundInputs : Len(d) > Len(b) => Len(d) >= Len(c)}

\* C16: (1) every parser is given the entire buffer accumulated so far;
\* (2) a parser that returned Failed is not asked in any later round;
\* (3) a parser that returned NeedMore is asked again in the next round,
\* unless a parser before it returned Ready in that round; (4) the first
\* Ready ends the loop with its name: no parser after it in that round and
\* none in a later round is asked; (5) the loop ends with "no name" exactly
\* when every parser has failed, and nothing is read after the last failure.
C16_ReadAheadLoop ==
    /\ \A inv \in invocations :
          /\ inv.input = SubSeq(buf, 1, Len(inv.input))
          /\ inv.input = [i \in 1..Len(inv.input) |-> i]
          /\ inv.ix \in DOMAIN parsers
    /\ invocations # {} => buf \in RoundInputs
    /\ \A i1 \in invocations : \A i2 \in invocations :
          (i1.ix = i2.ix /\ i1.outcome = "failed") => Len(i2.input) <= Len(i1.input)
    /\ \A i1 \in invocations : \A c \in NextRoundInputs(i1.input) :
          i1.outcome = "more" =>
             \/ \E i2 \in invocations : i2.ix = i1.ix /\ i2.input = c
             \/ \E i2 \in invocations : i2.ix < i1.ix /\ i2.input = c /\ i2.outcome = "ready"
    /\ \A r \in ReadyInvocations : \A i2 \in invocations :
          /\ Len(i2.input) <= Len(r.input)
          /\ i2.input = r.input => i2.ix <= r.ix
          /\ parseEnd = "name"
          /\ pc = "resolve" => req[1] = r.name
    /\ parseEnd = "name" => ReadyInvocations # {}
    /\ parseEnd = "noname" => \A ix \in DOMAIN parsers : HasFailed(ix)
    /\ (pc # "parse" /\ \A ix \in DOMAIN parsers : HasFailed(ix)) => parseEnd = "noname"
    /\ (\A ix \in DOMAIN parsers : HasFailed(ix)) => nRead = Len(buf) /\ active = {}

\* the first parser failed on the first byte and was not asked again; the
\* second wanted more, got the two-byte buffer and returned the name
C16_Witness ==
    /\ parseEnd = "name"
    /\ Len(parsers) = 2
    /\ \E inv \in invocations : inv.ix = 1 /\ inv.input = <<1>> /\ inv.outcome = "failed"
    /\ \E inv \in invocations : inv.ix = 2 /\ inv.input = <<1>> /\ inv.outcome = "more"
    /\ \E inv \in invocations : inv.ix = 2 /\ inv.input = <<1, 2>> /\ inv.outcome = "ready"
    /\ \A inv \in invocations : inv.ix = 1 => inv.input = <<1>>

\* both parsers failed, one after the other: the loop ended without a name
C16_WitnessNoName ==
    /\ parseEnd = "noname"
    /\ Len(parsers) = 2
    /\ \E inv \in invocations : inv.ix = 2 /\ inv.input = <<1, 2>> /\ inv.outcome = "failed"
    /\ nRead = 2

\* the parser each configured kind stands for
KindParser == [k \in ParserKinds |-> IF k = "h1" THEN "Hostname" ELSE "ServiceName"]

\* C20: every parser asked is the parser of the kind configured at its
\* position of the listener's list; the parsers are asked in the list's
\* order (a parser is asked only when every one before it was asked on the
\* same buffer and was not Ready, or has failed before); and a client whose
\* protocol has no parser on the list is never parsed by that protocol's
\* parser and gets no name.
C20_ConfiguredParsersOnly ==
    /\ \A inv \in invocations :
          /\ inv.ix \in DOMAIN parsers
          /\ inv.parser = KindParser[parsers[inv.ix]]
          /\ \A j \in 1..(inv.ix - 1) :
                \/ \E i2 \in invocations :
                      i2.ix = j /\ i2.input = inv.input /\ i2.outcome # "ready"
                \/ \E i2 \in invocations :
                      i2.ix = j /\ Len(i2.input) < Len(inv.input) /\ i2.outcome = "failed"
    /\ \A k \in ParserKinds :
          (traffic = k /\ k \notin Range(parsers)) =>
              /\ \A inv \in invocations : inv.parser # KindParser[k]
              /\ ReadyInvocations = {}
              /\ parseEnd # "name"

\* an HTTP/1 client on a listener configured with [tls]: the TLS parser was
\* asked and failed, and the read-ahead ended without a name
C20_Witness ==
    /\ parsers = <<"tls">>
    /\ traffic = "h1"
    /\ \E inv \in invocations : inv.parser = "ServiceName" /\ inv.outcome = "failed"
    /\ parseEnd = "noname"
    /\ req[1] = <<>>
    /\ pc = "resolve"

----------------------------------------------------------------------------
(* Claims about the dns stage *)

\* the answers of a phase that found something
Found(phase) == {a \in dnsAnswers : a.phase = phase /\ a.found}

\* C17: when the lookup of a chosen SRV target has found an address, the
\* stage has returned Some((ip, port)) with an address of the DNS answer and
\* the port of an SRV record chosen from the answer of that client - which
\* was SRV-eligible - not the port the stage was called with.
C17_SrvPortWins ==
    Found("target") # {} =>
        /\ stage \in {"return", "done"}
        /\ result.tag = "Some"
        /\ result.ip \in DnsIps
        /\ result.port \in srvPorts
        /\ \A a \in Found("target") :
              /\ \E b \in Found("srv") : b.client = a.client
              /\ \E d \in Range(OfType(rules, "dns")[a.client].srv) : EndsWith(cur[1], d)

\* an SRV answer won after the constant stage had translated the port: the
\* destination has the SRV record's port, neither the request's nor the
\* translated one
C17_Witness ==
    /\ Found("target") # {}
    /\ stage = "return"
    /\ result.port = 6000
    /\ req[2] = 80
    /\ cur[2] = 443

\* the dns clients, by index of their rule
DnsClients == DOMAIN OfType(rules, "dns")

\* C18: in the A/AAAA race the stage returns Some(address), with the port
\* it was called with, as soon as one client has a non-empty answer, whatever
\* the others answered before; it goes on to inner only when every client has
\* answered empty or with an error, and then the answer above the void leaf
\* is None, not an error.
C18_IpRaceRecovers ==
    dnsMode = "ip" =>
        /\ Found("ip") # {} =>
              /\ stage \in {"return", "done"}
              /\ result.tag = "Some"
              /\ result.ip \in DnsIps
              /\ result.port = cur[2]
        /\ (Found("ip") = {} /\ stage # "dns_race") =>
              /\ \A c \in DnsClients : Answer(c, "ip", FALSE) \in dnsAnswers
              /\ result.tag # "Err"
              /\ stage \in {"void", "return"} => result = ResNone
        /\ stage = "dns_race" =>
              /\ Found("ip") = {}
              /\ \A c \in DnsClients :
                    Answer(c, "ip", FALSE) \in dnsAnswers <=> Pending(c, "ip", cur[2]) \notin dnsPending

\* one client failed or answered empty, then the other found an address
C18_Witness ==
    /\ dnsMode = "ip"
    /\ Answer(1, "ip", FALSE) \in dnsAnswers
    /\ Answer(2, "ip", TRUE) \in dnsAnswers
    /\ stage = "return"
    /\ result.tag = "Some"

\* both clients failed or answered empty: the void leaf answered None
C18_WitnessAllEmpty ==
    /\ dnsMode = "ip"
    /\ Answer(1, "ip", FALSE) \in dnsAnswers
    /\ Answer(2, "ip", FALSE) \in dnsAnswers
    /\ stage = "return"
    /\ result = ResNone

\* the SRV suffixes configured for dns client c
SrvSuffixes(c) == Range(OfType(rules, "dns")[c].srv)

\* C19: every SRV query, pending or issued, is one of a client that has a
\* suffix of the queried name in its own SRV list, and is for that name; a
\* client without SRV list has issued none.
C19_SrvOnlyForOwnSuffix ==
    /\ \A q \in dnsLog :
          q.kind = "srv" =>
              /\ q.client \in DnsClients
              /\ q.name = Append(cur[1], ".")
              /\ \E d \in SrvSuffixes(q.client) : EndsWith(cur[1], d)
    /\ \A p \in dnsPending :
          p.phase \in {"srv", "target"} =>
              \E d \in SrvSuffixes(p.client) : EndsWith(cur[1], d)
    /\ \A c \in DnsClients :
          SrvSuffixes(c) = {} => \A q \in dnsLog : q.client = c => q.kind = "ip"

\* of two clients the one with a matching suffix was asked for SRV, the one
\* without SRV list was not asked at all
C19_Witness ==
    /\ DnsClients = {1, 2}
    /\ SrvSuffixes(2) = {}
    /\ \E q \in dnsLog : q.client = 1 /\ q.kind = "srv"
    /\ \A q \in dnsLog : q.client = 1
    /\ stage = "return"

----------------------------------------------------------------------------
(* http::Hostname: the HTTP/1 parser, on bytes *)

\* A byte is a one-character string; InvalidByte stands for a byte that no
\* UTF-8 text contains
InvalidByte == "0xFF"

GET == <<"G", "E", "T">>
HEAD == <<"H", "E", "A", "D">>
OPTIONS == <<"O", "P", "T", "I", "O", "N", "S">>
CONNECT == <<"C", "O", "N", "N", "E", "C", "T">>
POST == <<"P", "O", "S", "T">>
PUT == <<"P", "U", "T">>
PATCH == <<"P", "A", "T", "C", "H">>
TRACE == <<"T", "R", "A", "C", "E">>
DELETE == <<"D", "E", "L", "E", "T", "E">>
METHODS == {GET, HEAD, OPTIONS, CONNECT, POST, PUT, PATCH, TRACE, DELETE}

\* slice::starts_with
StartsWith(s, prefix) ==
    /\ Len(prefix) <= Len(s)
    /\ SubSeq(s, 1, Len(prefix)) = prefix

\* the bytes that can follow the method of a request line
RequestLineSeparators == {" ", "\t"}

\* A test that also wants a separator after the method
is_http_with_separator(b) ==
    \E method \in METHODS :
        /\ StartsWith(b, method)
        /\ Len(b) > Len(method)
        /\ b[Len(method) + 1] \in RequestLineSeparators

\* is_http: METHODS.iter().any(|method| buf.starts_with(method))
is_http(b) == \E method \in METHODS : StartsWith(b, method)

\* slice::split / str::split: the pieces between the separators, empty
\* pieces included
RECURSIVE Split(_, _)
Split(s, sep) ==
    IF \E i \in 1..Len(s) : s[i] = sep
    THEN LET i == CHOOSE k \in 1..Len(s) :
                      s[k] = sep /\ \A j \in 1..(k - 1) : s[j] # sep
         IN <<SubSeq(s, 1, i - 1)>> \o Split(SubSeq(s, i + 1, Len(s)), sep)
    ELSE <<s>>

\* std::str::from_utf8(line).ok() is Some
IsUtf8(line) == \A i \in 1..Len(line) : line[i] # InvalidByte

\* char::is_whitespace, on the bytes of the model
WhiteSpace == {" ", "\t", "\r", "\n"}

RECURSIVE TrimStart(_)
TrimStart(s) ==
    IF s # <<>> /\ s[1] \in WhiteSpace THEN TrimStart(Tail(s)) ELSE s

RECURSIVE TrimEnd(_)
TrimEnd(s) ==
    IF s # <<>> /\ s[Len(s)] \in WhiteSpace
    THEN TrimEnd(SubSeq(s, 1, Len(s) - 1))
    ELSE s

\* str::trim
Trim(s) == TrimEnd(TrimStart(s))

HostCapital == <<"H", "o", "s", "t">>
HostLower == <<"h", "o", "s", "t">>

\* the closure of find: line.starts_with("Host") || line.starts_with("host")
IsHostLine(line) == StartsWith(line, HostCapital) \/ StartsWith(line, HostLower)

\* try_read_hostname: the first valid line that begins with Host or host,
\* its second piece between colons, trimmed
try_read_hostname(b) ==
    LET lines == SelectSeq(Split(b, "\n"), IsUtf8)
        found == SelectSeq(lines, IsHostLine)
    IN IF found = <<>> THEN None
       ELSE LET pieces == Split(found[1], ":")
            IN IF Len(pieces) < 2 THEN None ELSE Some(Trim(pieces[2]))

\* Result<Option<String>, _> of a parser
ParseErr(e) == [tag |-> "failed", name |-> <<>>, err |-> e]
ParseMore == [tag |-> "more", name |-> <<>>, err |-> ""]
ParseReady(name) == [tag |-> "ready", name |-> name, err |-> ""]

\* Hostname::parse
HostnameParse(b) ==
    IF ~is_http(b) THEN ParseErr("NotHttp1")
    ELSE LET hostname == try_read_hostname(b)
         IN IF IsSome(hostname) THEN ParseReady(Unwrap(hostname)) ELSE ParseMore

\* The bytes clients send: a method or something else, then a request
\* line's rest and header lines
MaxLines == 2

RECURSIVE Flatten(_)
Flatten(ss) == IF ss = <<>> THEN <<>> ELSE Head(ss) \o Flatten(Tail(ss))

Starts ==
    {method \o x : method \in METHODS, x \in {<<>>, <<" ">>, <<"X">>}}
    \cup {<<>>, <<"G", "E">>, <<"X">>, <<"g", "e", "t", " ">>}

HeaderNames == {HostCapital, HostLower}

HeaderRests ==
    { <<":", " ", "a", "b", "\r", "\n">>,
      <<":", " ", "a", ":", "8", "\n">>,
      <<"\n">> }

\* Host lines in both spellings the code knows, a Host line in capitals, a
\* longer name, other headers, and a Host line that is no UTF-8
HeaderLines ==
    {name \o rest : name \in HeaderNames, rest \in HeaderRests}
    \cup {<<"H", "O", "S", "T">> \o <<":", " ", "a", "b", "\r", "\n">>,
          HostCapital \o <<"s", ":", " ", "a", "b", "\r", "\n">>,
          <<"X", ":", " ", "a", "b", "\r", "\n">>,
          <<"X", "\n">>,
          HostCapital \o <<":", InvalidByte, "\n">>}

HostLine == HostCapital \o <<":", " ", "a", "b", "\r", "\n">>

Messages ==
    {start \o rest : start \in Starts, rest \in {<<>>, <<"/", "\n">> \o HostLine}}
    \cup {GET \o <<" ", "/", "\n">> \o Flatten(ls) : ls \in SeqsUpTo(HeaderLines, MaxLines)}

\* the proxy itself at rest
InitProxyIdle ==
    /\ rules = <<FallbackRule("ipF", 8080)>>
    /\ InitAtResolve
    /\ InitLsnIdle
    /\ req = <<NameA, 80>>
    /\ stage = "idle"
    /\ cur = req
    /\ dnsMode = "none"
    /\ dnsPending = {}
    /\ dnsLog = {}
    /\ srvPorts = {}
    /\ result = ResNone

\* parse_service_name: more bytes are read and the whole buffer is offered to
\* the parser.  The parser is applied to every buffer the read-ahead can
\* hold, also after it has answered.
H1Parse ==
    /\ \E k \in 1..(Len(message) - Len(parsed.input)) :
          LET b == SubSeq(message, 1, Len(parsed.input) + k)
          IN parsed' = [input |-> b, result |-> HostnameParse(b)]
    /\ UNCHANGED <<message, tlsVars, cfgVars, mainVars>>
    /\ UNCHANGED <<pipeVars, fwdVars, admVars, parseVars, logVars, lsnVars, sockVars>>

InitH1 ==
    /\ InitProxyIdle
    /\ message \in Messages
    /\ parsed = [input |-> <<>>, result |-> ParseMore]
    /\ InitTlsIdle
    /\ InitCfgIdle
    /\ InitMainIdle

NextH1 == H1Parse

SpecH1 == InitH1 /\ [][NextH1]_vars

----------------------------------------------------------------------------
(* Claims about the HTTP/1 parser *)

\* the parser has been asked about the bytes received
H1Asked == parsed.input # <<>>

\* C22 as stated: the parser does not fail exactly when the buffer starts
\* with a method that is followed by a request-line separator, and every
\* other buffer fails with NotHttp1.
C22_Original ==
    H1Asked =>
        /\ parsed.result.tag # "failed" <=>
              \E method \in METHODS :
                  /\ StartsWith(parsed.input, method)
                  /\ Len(parsed.input) > Len(method)
                  /\ parsed.input[Len(method) + 1] \in RequestLineSeparators
        /\ parsed.result.tag = "failed" => parsed.result.err = "NotHttp1"

\* C22: the parser does not fail exactly when the first bytes of the buffer
\* spell one of the nine methods, whatever follows them, nothing included;
\* every other buffer, a proper prefix of a method too, fails with NotHttp1.
C22_EligibleByMethodPrefix ==
    H1Asked =>
        /\ parsed.result.tag # "failed" <=>
              \E method \in {GET, HEAD, OPTIONS, CONNECT, POST, PUT, PATCH, TRACE, DELETE} :
                  /\ Len(parsed.input) >= Len(method)
                  /\ \A i \in 1..Len(method) : parsed.input[i] = method[i]
        /\ parsed.result.tag = "failed" => parsed.result.err = "NotHttp1"

\* a method followed by a byte that is no separator is not failed
C22_Witness ==
    /\ parsed.input = GET \o <<"X">>
    /\ parsed.result = ParseMore

\* a proper prefix of a method fails
C22_WitnessPrefix ==
    /\ parsed.input = <<"G", "E">>
    /\ parsed.result = ParseErr("NotHttp1")

\* ASCII lower case of the letters of the header names sent
Lower(c) ==
    CASE c = "H" -> "h"
      [] c = "O" -> "o"
      [] c = "S" -> "s"
      [] c = "T" -> "t"
      [] OTHER -> c

\* the name of a header line: what stands before its first colon
HeaderName(line) == [i \in 1..Len(Split(line, ":")[1]) |-> Lower(Split(line, ":")[1][i])]

\* the value of a header line: everything after its first colon, trimmed
HeaderValue(line) ==
    Trim(SubSeq(line, Len(Split(line, ":")[1]) + 2, Len(line)))

\* the lines that are a Host header, whatever the capitalisation
HostHeaders(b) ==
    LET IsHost(line) == (\E i \in 1..Len(line) : line[i] = ":") /\ HeaderName(line) = HostLower
    IN SelectSeq(Split(b, "\n"), IsHost)

\* C23 as stated: on a request that has arrived whole, an eligible parser
\* yields the value of the first line named Host in any capitalisation
\* (a longer name that begins with Host is not that header), and the value
\* is all the trimmed text after the line's first colon.
C23_Original ==
    (H1Asked /\ parsed.input = message /\ parsed.result.tag # "failed") =>
        IF HostHeaders(parsed.input) = <<>>
        THEN parsed.result = ParseMore
        ELSE parsed.result = ParseReady(HeaderValue(HostHeaders(parsed.input)[1]))

\* C24 as stated: once the parser has yielded a name for a buffer, it
\* yields the same name for every longer buffer of the same client, so no
\* name is a cut-off part of the Host value being sent.
C24_Original ==
    [][parsed.result.tag = "ready" => parsed'.result = parsed.result]_vars

\* the request "GET /\nHOST: ab\r\n" has arrived whole and the parser still
\* asks for more
C23_Divergence ==
    /\ message = GET \o <<" ", "/", "\n", "H", "O", "S", "T", ":", " ", "a", "b", "\r", "\n">>
    /\ parsed.input = message
    /\ parsed.result = ParseMore

\* the line "Hosts: ab" is taken for the Host header
C23_DivergenceLongerName ==
    /\ message = GET \o <<" ", "/", "\n", "H", "o", "s", "t", "s", ":", " ", "a", "b", "\r", "\n">>
    /\ parsed.input = message
    /\ parsed.result = ParseReady(<<"a", "b">>)

\* "Host: a:8" yields "a"
C23_DivergenceSecondColon ==
    /\ message = GET \o <<" ", "/", "\n", "H", "o", "s", "t", ":", " ", "a", ":", "8", "\n">>
    /\ parsed.input = message
    /\ parsed.result = ParseReady(<<"a">>)

\* of "Host: ab" only "Host: a" has been read, and the parser yields "a"
C24_Divergence ==
    /\ message = GET \o <<" ", "/", "\n">> \o HostLine
    /\ parsed.input = GET \o <<" ", "/", "\n", "H", "o", "s", "t", ":", " ", "a">>
    /\ parsed.result = ParseReady(<<"a">>)

----------------------------------------------------------------------------
(* tls::ServiceName: the TLS parsers of concurrent connections *)

\* OpaqueMessage::MAX_WIRE_SIZE, scaled down to the size of the model
MaxWireSize == 2

\* how many bytes a client sends at most: enough to pass the wire size
TlsMaxBytes == MaxWireSize + 2

\* the connections the listener accepts
TlsConnIds == {"c1", "c2"}

\* byte k of the client of connection c
TlsByte(c, k) == <<c, k>>

\* the first n bytes of the client of connection c
Stream(c, n) == [k \in 1..n |-> TlsByte(c, k)]

\* What a client sends: a ClientHello that is complete after `len` bytes and
\* carries the server name `sni` (or none), or bytes that rustls rejects when
\* it has seen byte `bad`
Hello(len, sni) == [len |-> len, sni |-> sni, bad |-> 0]
Malformed(bad) == [len |-> 0, sni |-> None, bad |-> bad]

Hellos ==
    { Hello(1, Some(NameA)),
      Hello(2, None),
      Hello(MaxWireSize + 1, Some(NameB)),
      Hello(MaxWireSize + 2, Some(NameA)),
      Malformed(1),
      Malformed(2) }

\* ServiceName::default(): a new acceptor that has been fed nothing
ServiceNameDefault == [accepted |-> 0, fed |-> <<>>]

\* One set of parsers built for the listener and used by all its connections
ParsersOfListener(c) == "listener"

\* main: the parsers are built from the listener's kinds inside the accept
\* loop, once per accepted connection, and moved into its forwarder
ParsersOf(c) == c

\* Acceptor::read_tls(&mut cursor): how many of the `remaining` bytes of the
\* cursor the acceptor takes in one call
ReadTls(remaining) == 1..remaining

\* Acceptor::accept(), by the bytes the acceptor has been fed: Ok(None),
\* Ok(Some(accepted)) with the hello's server name, or Err(_).  Bytes that
\* are not the beginning of one client's stream are no TLS.
AcceptorAccept(fed) ==
    IF fed = <<>> THEN [tag |-> "None", sni |-> None]
    ELSE IF fed # Stream(fed[1][1], Len(fed)) THEN [tag |-> "Err", sni |-> None]
    ELSE LET h == hellos[fed[1][1]]
         IN IF h.bad # 0
            THEN IF Len(fed) >= h.bad THEN [tag |-> "Err", sni |-> None]
                 ELSE [tag |-> "None", sni |-> None]
            ELSE IF Len(fed) >= h.len THEN [tag |-> "Some", sni |-> h.sni]
                 ELSE [tag |-> "None", sni |-> None]

\* A guard that already fails at the wire size
ExceedsMaxAtLimit(accepted) == accepted >= MaxWireSize

\* `Ok(None) if self.accepted > OpaqueMessage::MAX_WIRE_SIZE`
ExceedsMax(accepted) == accepted > MaxWireSize

\* ServiceName::parse on `input` when read_tls takes r bytes: the parser
\* afterwards and what parse returns
ServiceNameParse(self, input, r) ==
    LET accepted == self.accepted + r
        fed == self.fed \o SubSeq(input, self.accepted + 1, self.accepted + r)
        a == AcceptorAccept(fed)
    IN [self |-> [accepted |-> accepted, fed |-> fed],
        result |->
            CASE a.tag = "None" /\ ExceedsMax(accepted) -> ParseErr("MaxSizeExceeded")
              [] a.tag = "None" /\ ~ExceedsMax(accepted) -> ParseMore
              [] a.tag = "Some" ->
                    ParseReady(IF IsSome(a.sni) THEN Unwrap(a.sni) ELSE <<>>)
              [] OTHER -> ParseErr("rustls")]

\* a connection before it is accepted
NoTlsConn == [at |-> "none", n |-> 0, out |-> ParseMore]

\* where the read-ahead of a connection is after its parser has answered
AfterParse(out) ==
    CASE out.tag = "more" -> "reading"
      [] out.tag = "ready" -> "name"
      [] OTHER -> "noname"

\* main: a connection is accepted and its parsers are built
TlsAccept ==
    /\ \E c \in TlsConnIds :
          /\ tconns[c].at = "none"
          /\ tconns' = [tconns EXCEPT ![c].at = "reading"]
          /\ instances' =
                IF ParsersOf(c) \in DOMAIN instances THEN instances
                ELSE instances @@ (ParsersOf(c) :> ServiceNameDefault)
    /\ UNCHANGED <<hellos, h1Vars, cfgVars, mainVars>>
    /\ UNCHANGED <<pipeVars, fwdVars, admVars, parseVars, logVars, lsnVars, sockVars>>

\* parse_service_name: read_buf appends k bytes, then the parser is offered
\* the whole buffer.  `&input[self.accepted..]` panics when the parser has
\* accepted more bytes than the buffer holds.
TlsReadAhead ==
    /\ \E c \in TlsConnIds : \E k \in 1..(TlsMaxBytes - tconns[c].n) :
          LET n == tconns[c].n + k
              self == instances[ParsersOf(c)]
          IN /\ tconns[c].at = "reading"
             /\ IF self.accepted > n
                THEN /\ tconns' = [tconns EXCEPT ![c].at = "panicked", ![c].n = n]
                     /\ UNCHANGED instances
                ELSE \E r \in ReadTls(n - self.accepted) :
                        LET p == ServiceNameParse(self, Stream(c, n), r)
                        IN /\ instances' = [instances EXCEPT ![ParsersOf(c)] = p.self]
                           /\ tconns' = [tconns EXCEPT ![c].at = AfterParse(p.result),
                                                       ![c].n = n,
                                                       ![c].out = p.result]
    /\ UNCHANGED <<hellos, h1Vars, cfgVars, mainVars>>
    /\ UNCHANGED <<pipeVars, fwdVars, admVars, parseVars, logVars, lsnVars, sockVars>>

InitTls ==
    /\ InitProxyIdle
    /\ hellos \in [TlsConnIds -> Hellos]
    /\ instances = <<>>
    /\ tconns = [c \in TlsConnIds |-> NoTlsConn]
    /\ InitH1Idle
    /\ InitCfgIdle
    /\ InitMainIdle

NextTls ==
    \/ TlsAccept
    \/ TlsReadAhead

SpecTls == InitTls /\ [][NextTls]_vars

----------------------------------------------------------------------------
(* Claims about the TLS parser *)

\* the bytes the parser of connection c has fed to its acceptor
FedTo(c) == instances[ParsersOf(c)].accepted

\* the parser of connection c has been asked at least once
TlsAsked(c) == tconns[c].at \in {"reading", "name", "noname"} /\ tconns[c].n > 0

\* What the claim expects of a parser that has fed `a` bytes of hello h
TlsExpected(h, a) ==
    CASE h.bad # 0 /\ a >= h.bad -> ParseErr("rustls")
      [] h.bad = 0 /\ a >= h.len -> ParseReady(IF h.sni = None THEN <<>> ELSE h.sni[1])
      [] a > MaxWireSize -> ParseErr("MaxSizeExceeded")
      [] OTHER -> ParseMore

\* C25: whatever the reads, the TLS parser answers NeedMore exactly while the
\* hello is incomplete and at most MAX_WIRE_SIZE bytes have been fed to the
\* acceptor, MaxSizeExceeded when more have been fed without acceptance, the
\* acceptor's error on bytes it rejects, and on acceptance the server name,
\* the empty string when the hello has none.
C25_TlsParserOutcomes ==
    \A c \in TlsConnIds :
        TlsAsked(c) => tconns[c].out = TlsExpected(hellos[c], FedTo(c))

\* more than MAX_WIRE_SIZE bytes of an incomplete hello: MaxSizeExceeded
C25_Witness ==
    /\ hellos["c1"] = Hello(MaxWireSize + 2, Some(NameA))
    /\ tconns["c1"].at = "noname"
    /\ tconns["c1"].out = ParseErr("MaxSizeExceeded")
    /\ FedTo("c1") = MaxWireSize + 1

\* exactly MAX_WIRE_SIZE bytes of an incomplete hello: NeedMore
C25_WitnessAtLimit ==
    /\ hellos["c1"] = Hello(MaxWireSize + 1, Some(NameB))
    /\ TlsAsked("c1")
    /\ tconns["c1"].out = ParseMore
    /\ FedTo("c1") = MaxWireSize

\* a hello without SNI is accepted: the empty name
C25_WitnessNoSni ==
    /\ hellos["c1"] = Hello(2, None)
    /\ tconns["c1"].out = ParseReady(<<>>)
    /\ tconns["c1"].at = "name"

\* the acceptor rejects the bytes
C25_WitnessMalformed ==
    /\ hellos["c1"] = Malformed(2)
    /\ tconns["c1"].out = ParseErr("rustls")

\* what a parser that is asked about the first n bytes of hello h alone can
\* have answered
AloneOutcomes(h, n) == {TlsExpected(h, a) : a \in 1..n}

\* C21: under every interleaving of the connections, each accepted
\* connection has a parser of its own, which has been fed the first bytes of
\* that connection's client and nothing else; its byte counter never passes
\* that connection's buffer, and what it answered, failure included, is an
\* answer to that connection's bytes alone.
C21_ParserStatePerConnection ==
    \A c \in TlsConnIds :
        tconns[c].at # "none" =>
            /\ \A d \in TlsConnIds \ {c} : ParsersOf(d) # ParsersOf(c)
            /\ instances[ParsersOf(c)].fed = Stream(c, FedTo(c))
            /\ FedTo(c) <= tconns[c].n
            /\ tconns[c].at # "panicked"
            /\ tconns[c].n > 0 => tconns[c].out \in AloneOutcomes(hellos[c], tconns[c].n)

\* two connections at once: the first is still reading its long hello, the
\* second has its name, and each counter is the connection's own
C21_Witness ==
    /\ hellos["c1"] = Hello(MaxWireSize + 2, Some(NameA))
    /\ hellos["c2"] = Hello(1, Some(NameA))
    /\ tconns["c1"].at = "reading"
    /\ tconns["c1"].n = 2
    /\ tconns["c2"].at = "name"
    /\ tconns["c2"].n = 1
    /\ FedTo("c1") = 2
    /\ FedTo("c2") = 1

\* one connection's parser has failed, the other's has not
C21_WitnessFailed ==
    /\ tconns["c1"].at = "noname"
    /\ tconns["c1"].out.tag = "failed"
    /\ tconns["c2"].at = "name"

----------------------------------------------------------------------------
(* config::load_config: the document, deserialized and validated *)

MaxListeners == 2

\* listener.rs: DEFAULT_BIND
DEFAULT_BIND == "127.0.0.1:8314"

\* listener.rs: default_parsers()
default_parsers == <<"h1", "tls">>

\* impl Default for Listener
ListenerDefault == [address |-> DEFAULT_BIND, parsers |-> default_parsers]

\* impl FromStr for Kind
KindFromStr(s) ==
    CASE s \in {"h1", "http/1"} -> Some("h1")
      [] s = "tls" -> Some("tls")
      [] OTHER -> None

\* Result<Config, anyhow::Error>
LoadErr(why) == [tag |-> "Err", why |-> why, listen |-> <<>>, layers |-> <<>>]
LoadOk(listen, layers) == [tag |-> "Ok", why |-> "", listen |-> listen, layers |-> layers]
NotLoaded == [tag |-> "none", why |-> "", listen |-> <<>>, layers |-> <<>>]

\* #[derive(Deserialize)] struct Listener: `parsers` has a serde default,
\* each of its strings goes through Kind's visitor
ListenerOk(entry) ==
    entry.parsers = None \/ \A i \in DOMAIN entry.parsers[1] : KindFromStr(entry.parsers[1][i]) # None

DeserializeListener(entry) ==
    [address |-> entry.address,
     parsers |-> IF entry.parsers = None THEN default_parsers
                 ELSE [i \in DOMAIN entry.parsers[1] |-> Unwrap(KindFromStr(entry.parsers[1][i]))]]

\* serde_yaml::from_reader into #[derive(Deserialize)] struct ConfigFile
\* { listen: Vec<Listener>, rules: Vec<Rule> }: neither field has a serde
\* default, so a document without the key is an error
Deserialize(doc) ==
    IF doc.listen = None THEN LoadErr("missing field listen")
    ELSE IF doc.rules = None THEN LoadErr("missing field rules")
    ELSE IF \E i \in DOMAIN doc.listen[1] : ~ListenerOk(doc.listen[1][i])
    THEN LoadErr("Invalid parser kind")
    ELSE [tag |-> "Ok",
          listen |-> [i \in DOMAIN doc.listen[1] |-> DeserializeListener(doc.listen[1][i])],
          rules |-> doc.rules[1]]

\* ConfigFile::validate: the listeners, defaulted when there is none, and
\* the layers
ValidateFile(cf) ==
    IF cf.rules = <<>> THEN LoadErr("Config must include at least one rule")
    ELSE LoadOk(IF cf.listen = <<>> THEN <<ListenerDefault>> ELSE cf.listen,
                Validate(cf.rules))

\* load_config
load_config(doc) ==
    LET config_file == Deserialize(doc)
    IN IF config_file.tag = "Err" THEN config_file ELSE ValidateFile(config_file)

\* the documents read
ListenEntries ==
    { [address |-> "0.0.0.0:80", parsers |-> None],
      [address |-> "0.0.0.0:443", parsers |-> Some(<<"tls">>)],
      [address |-> "0.0.0.0:8080", parsers |-> Some(<<"http/1", "tls">>)],
      [address |-> "0.0.0.0:81", parsers |-> Some(<<>>)],
      [address |-> "0.0.0.0:82", parsers |-> Some(<<"h2">>)] }

Documents ==
    [listen : {None} \cup {Some(ls) : ls \in SeqsUpTo(ListenEntries, MaxListeners)},
     rules : {None, Some(<<>>)} \cup {Some(rs) : rs \in LsnConfigs}]

\* main: config::load_config()
LoadConfig ==
    /\ loaded = NotLoaded
    /\ loaded' = load_config(file)
    /\ UNCHANGED <<file, h1Vars, tlsVars, mainVars>>
    /\ UNCHANGED <<pipeVars, fwdVars, admVars, parseVars, logVars, lsnVars, sockVars>>

InitConfig ==
    /\ InitProxyIdle
    /\ file \in Documents
    /\ loaded = NotLoaded
    /\ InitH1Idle
    /\ InitTlsIdle
    /\ InitMainIdle

NextConfig == LoadConfig

SpecConfig == InitConfig /\ [][NextConfig]_vars

\* the document deserializes but for its listen key
DocumentValid(doc) ==
    /\ doc.rules # None
    /\ doc.listen # None => \A i \in DOMAIN doc.listen[1] : ListenerOk(doc.listen[1][i])

\* C26 as stated: a document with rules loads with the one default listener
\* when its listen key is absent and when it is present and empty, and with
\* exactly the listeners it lists when there are some; with an empty rules
\* list loading fails.
C26_Original ==
    (loaded # NotLoaded /\ DocumentValid(file)) =>
        IF file.rules = Some(<<>>) THEN loaded.tag = "Err"
        ELSE /\ loaded.tag = "Ok"
             /\ IF file.listen \in {None, Some(<<>>)}
                THEN loaded.listen = <<[address |-> "127.0.0.1:8314", parsers |-> <<"h1", "tls">>]>>
                ELSE loaded.listen = [i \in DOMAIN file.listen[1] |-> DeserializeListener(file.listen[1][i])]

\* a document with rules and without the listen key does not load
C26_Divergence ==
    /\ file.listen = None
    /\ file.rules # None
    /\ file.rules # Some(<<>>)
    /\ loaded = LoadErr("missing field listen")

\* C26 but for the absent key: an empty listen list gives the default
\* listener, a non-empty one is taken as it is, empty rules are an error
C26_ButAbsentListen ==
    (loaded # NotLoaded /\ DocumentValid(file) /\ file.listen # None) =>
        IF file.rules = Some(<<>>) THEN loaded.tag = "Err"
        ELSE /\ loaded.tag = "Ok"
             /\ IF file.listen = Some(<<>>)
                THEN loaded.listen = <<[address |-> "127.0.0.1:8314", parsers |-> <<"h1", "tls">>]>>
                ELSE loaded.listen = [i \in DOMAIN file.listen[1] |-> DeserializeListener(file.listen[1][i])]

----------------------------------------------------------------------------
(* Claims about the fallback stage taken alone *)

\* what the stage's inner service can report from poll_ready
Readiness == {"ok", "pending", "err"}

\* fallback::Service::poll_ready: Poll::Ready(Ok(())), the inner service is
\* not asked
FallbackPollReady(inner) == "ok"

\* C27: a configured fallback stage passes every request it is called with
\* on to its inner service, unchanged; when the inner response is Some(x)
\* the stage's response is that Some(x), when it is None or an error the
\* response is Some(default); so the stage never responds None or an error,
\* and its poll_ready is Ready(Ok) whatever its inner service reports.
C27_FallbackStage ==
    [][HasRule("fallback") =>
          /\ stage = "fallback" => (stage' = InnerOf("fallback") /\ cur' = cur)
          /\ (stage = "return" /\ stage' = "done") =>
                result' = IF result.tag = "Some" THEN result
                          ELSE ResSome(FallbackDefault[1], FallbackDefault[2])
          /\ stage' = "done" => result'.tag = "Some"
          /\ \A inner \in Readiness : FallbackPollReady(inner) = "ok"]_vars

\* the inner services found nothing (None from void, no filter to reject):
\* the response is the default
C27_Witness ==
    /\ HasRule("fallback")
    /\ ~HasRule("filter")
    /\ stage = "done"
    /\ dnsLog # {}
    /\ result = ResSome(FallbackDefault[1], FallbackDefault[2])

\* the inner services found an address: it is passed on
C27_WitnessSome ==
    /\ HasRule("fallback")
    /\ stage = "done"
    /\ result.tag = "Some"
    /\ result # ResSome(FallbackDefault[1], FallbackDefault[2])

----------------------------------------------------------------------------
(* Claims about the constant stage taken alone *)

\* C28: the constant stage, with nothing but void behind it, is called once
\* per request; with p the port bound to the request's (name, port), else the
\* request's port, it answers Some((ip, p)) for one of the name's constant
\* IPs without calling inner when the name has any, and otherwise calls
\* inner once with (name, p) and responds what inner responded.
C28_ConstantStageAlone ==
    [][/\ stage' = "constant" => stage = "queued"
       /\ stage' = "void" => stage = "constant"
       /\ stage = "constant" =>
             LET name == cur[1]
                 p == LastBoundPort(cur[1], cur[2])
             IN IF ConfiguredIps(name) # {}
                THEN /\ stage' = "return"
                     /\ cur' = cur
                     /\ \E ip \in ConfiguredIps(name) : result' = ResSome(ip, p)
                ELSE /\ stage' = "void"
                     /\ cur' = <<name, p>>
                     /\ result' = result
       /\ (stage = "return" /\ stage' = "done") => result' = result]_vars

\* a rule binding the request's port and no IP for the name: inner has been
\* called with the bound port and its None is the response
C28_Witness ==
    /\ stage = "done"
    /\ ConfiguredIps(req[1]) = {}
    /\ LastBoundPort(req[1], req[2]) # req[2]
    /\ cur = <<req[1], LastBoundPort(req[1], req[2])>>
    /\ result = ResNone

\* a constant IP and a bound port: answered without inner
C28_WitnessIp ==
    /\ stage = "done"
    /\ ConfiguredIps(req[1]) # {}
    /\ LastBoundPort(req[1], req[2]) # req[2]
    /\ cur = req
    /\ result.tag = "Some"
    /\ result.port = LastBoundPort(req[1], req[2])

\* no rule for the request: the stage hands it on as it is
C28_WitnessIdentity ==
    /\ stage = "done"
    /\ ConfiguredIps(req[1]) = {}
    /\ LastBoundPort(req[1], req[2]) = req[2]
    /\ BindingIndexes(req[1], req[2]) = {}
    /\ cur = req
    /\ result = ResNone

----------------------------------------------------------------------------
(* main: the listeners, their forwarders and the process *)

MaxTasks == 2

TaskIds == 1..MaxTasks

\* the awaits of forward, in the order a forwarder passes them
FwdAwaits == <<"read_ahead", "admission", "dns", "dial", "splice">>

\* a forwarder not yet spawned
NoTask == [lsn |-> 0, at |-> "none"]

\* main is still in `for listener in config.listen`, about to bind listener i
Binding(i) == [at |-> "binding", next |-> i, ret |-> "running"]

\* main is at join_all(listener_handles).await
Joining == [at |-> "joining", next |-> 0, ret |-> "running"]

\* main has returned: the runtime is dropped and with it every task
Exited(ret_) == [at |-> "exited", next |-> 0, ret |-> ret_]

\* An accept loop that awaits the forwarder of each connection in place
AcceptLoopAwaitsForwarder(l) ==
    \A t \in TaskIds : tasks[t].lsn = l => tasks[t].at \in {"none", "closed"}

\* main: the accept loop hands each connection to tokio::spawn and drops the
\* handle, so it is back at acceptor.accept().await whatever its forwarders do
AcceptLoopAtAccept(l) == TRUE

\* main: TcpListener::bind succeeded and the listener's task is spawned
MainBind ==
    /\ process.at = "binding"
    /\ listeners' = [listeners EXCEPT ![process.next] = "accepting"]
    /\ process' = IF process.next = Len(listeners) THEN Joining
                  ELSE Binding(process.next + 1)
    /\ UNCHANGED <<tasks, h1Vars, tlsVars, cfgVars>>
    /\ UNCHANGED <<pipeVars, fwdVars, admVars, parseVars, logVars, lsnVars, sockVars>>

\* main: TcpListener::bind failed: `?` returns the error from main
MainBindFails ==
    /\ process.at = "binding"
    /\ process' = Exited("Err")
    /\ UNCHANGED <<listeners, tasks, h1Vars, tlsVars, cfgVars>>
    /\ UNCHANGED <<pipeVars, fwdVars, admVars, parseVars, logVars, lsnVars, sockVars>>

\* the accept loop of listener l: a connection is accepted and its forwarder
\* spawned
MainAcceptOn(l) ==
    /\ process.at # "exited"
    /\ listeners[l] = "accepting"
    /\ AcceptLoopAtAccept(l)
    /\ \E t \in TaskIds :
          /\ tasks[t].at = "none"
          /\ \A u \in TaskIds : u < t => tasks[u].at # "none"
          /\ tasks' = [tasks EXCEPT ![t] = [lsn |-> l, at |-> FwdAwaits[1]]]
    /\ UNCHANGED <<process, listeners, h1Vars, tlsVars, cfgVars>>
    /\ UNCHANGED <<pipeVars, fwdVars, admVars, parseVars, logVars, lsnVars, sockVars>>

MainAccept == \E l \in DOMAIN listeners : MainAcceptOn(l)

\* the accept loop of listener l: accept returned Err, `while let Ok(..)`
\* ends and the listener's task with it
MainAcceptFails ==
    /\ process.at # "exited"
    /\ \E l \in DOMAIN listeners :
          /\ listeners[l] = "accepting"
          /\ AcceptLoopAtAccept(l)
          /\ listeners' = [listeners EXCEPT ![l] = "accept_failed"]
    /\ UNCHANGED <<process, tasks, h1Vars, tlsVars, cfgVars>>
    /\ UNCHANGED <<pipeVars, fwdVars, admVars, parseVars, logVars, lsnVars, sockVars>>

\* a forwarder passes an await
FwdAdvance ==
    /\ process.at # "exited"
    /\ \E t \in TaskIds : \E i \in 1..(Len(FwdAwaits) - 1) :
          /\ tasks[t].at = FwdAwaits[i]
          /\ tasks' = [tasks EXCEPT ![t].at = FwdAwaits[i + 1]]
    /\ UNCHANGED <<process, listeners, h1Vars, tlsVars, cfgVars>>
    /\ UNCHANGED <<pipeVars, fwdVars, admVars, parseVars, logVars, lsnVars, sockVars>>

\* a forwarder returns, with or without an error, which is only logged
FwdReturns ==
    /\ process.at # "exited"
    /\ \E t \in TaskIds :
          /\ tasks[t].at \in Range(FwdAwaits)
          /\ tasks' = [tasks EXCEPT ![t].at = "closed"]
    /\ UNCHANGED <<process, listeners, h1Vars, tlsVars, cfgVars>>
    /\ UNCHANGED <<pipeVars, fwdVars, admVars, parseVars, logVars, lsnVars, sockVars>>

\* A main that returns as soon as the task of one listener has ended
MainJoinFirst ==
    /\ process.at = "joining"
    /\ \E l \in DOMAIN listeners : listeners[l] = "accept_failed"
    /\ process' = Exited("Ok")
    /\ UNCHANGED <<listeners, tasks, h1Vars, tlsVars, cfgVars>>
    /\ UNCHANGED <<pipeVars, fwdVars, admVars, parseVars, logVars, lsnVars, sockVars>>

\* main: join_all completes when every listener's task has ended; main
\* returns Ok(())
MainJoinAll ==
    /\ process.at = "joining"
    /\ \A l \in DOMAIN listeners : listeners[l] = "accept_failed"
    /\ process' = Exited("Ok")
    /\ UNCHANGED <<listeners, tasks, h1Vars, tlsVars, cfgVars>>
    /\ UNCHANGED <<pipeVars, fwdVars, admVars, parseVars, logVars, lsnVars, sockVars>>

InitMain ==
    /\ InitProxyIdle
    /\ \E n \in 1..MaxListeners : listeners = [l \in 1..n |-> "unbound"]
    /\ process = Binding(1)
    /\ tasks = [t \in TaskIds |-> NoTask]
    /\ InitH1Idle
    /\ InitTlsIdle
    /\ InitCfgIdle

NextMain ==
    \/ MainBind
    \/ MainBindFails
    \/ MainAccept
    \/ MainAcceptFails
    \/ FwdAdvance
    \/ FwdReturns
    \/ MainJoinAll

SpecMain == InitMain /\ [][NextMain]_vars

----------------------------------------------------------------------------
(* Claims about the listeners *)

\* a forwarder that has been spawned and has not returned
Unfinished(t) == tasks[t].at \in Range(FwdAwaits)

\* C29: as long as the process runs, a listener whose accept loop has not
\* ended can accept the next connection and spawn its forwarder, whatever
\* forwarders are suspended and wherever (read-ahead, admission, DNS, dial,
\* splice), its own included.
C29_AcceptNeverWaitsForForwarder ==
    \A l \in DOMAIN listeners :
        (/\ process.at # "exited"
         /\ listeners[l] = "accepting"
         /\ \E t \in TaskIds : tasks[t].at = "none") => ENABLED MainAcceptOn(l)

\* a forwarder of listener 1 is in the splice, and the listener has accepted
\* a second connection since, whose forwarder is in its read-ahead
C29_Witness ==
    /\ tasks[1] = [lsn |-> 1, at |-> "splice"]
    /\ tasks[2] = [lsn |-> 1, at |-> "read_ahead"]
    /\ listeners[1] = "accepting"

C30_WitnessBindFails ==
    /\ Len(listeners) >= 2
    /\ listeners[1] = "accepting"
    /\ process = Exited("Err")
    /\ Unfinished(1)

----------------------------------------------------------------------------
(* The names and ports each stage of the composed pipeline works on *)

\* the name rewrite::Service::call hands to inner for `name`, read off the
\* rule list: the first matching rewrite rule applied once
Rewritten(name) ==
    IF MatchingRules(name) = {} THEN name
    ELSE Apply(RewriteRules[SetMin(MatchingRules(name))], name).value

\* the queries for the request itself (srv_lookup and lookup_ip of the record)
RecordQueries == {q \in dnsLog : q.kind \in {"srv", "ip"}}

\* the follow-up address lookups of chosen SRV records
TargetQueries == {q \in dnsLog : q.kind = "target"}

\* C31 as stated: the filter and the constant stage are handed the name as
\* extracted from the connection, every DNS query is made for the rewritten
\* name, and the dns stage receives the port translated by the constant stage.
C31_Original ==
    /\ stage \in {"filter", "constant"} => cur = req
    /\ \A q \in dnsLog : q.name = Fqdn(Rewritten(req[1]))
    /\ stage \in {"dns", "dns_race"} => cur[2] = LastBoundPort(req[1], req[2])

\* C31 amended: the filter and the constant stage are handed the request as
\* forward made it; the dns stage is handed the rewritten name and the
\* translated port; every SRV and A/AAAA query of the record is made for the
\* rewritten name (with a trailing dot); the address lookup that follows a
\* chosen SRV record is made for that record's target, not for the name.
C31_StagesSeeNamesInStackOrder ==
    /\ stage \in {"filter", "constant"} => cur = req
    /\ stage \in {"dns", "dns_race"} =>
          cur = <<Rewritten(req[1]), LastBoundPort(req[1], req[2])>>
    /\ \A q \in RecordQueries : q.name = Fqdn(Rewritten(req[1]))
    /\ \A q \in TargetQueries : q.name \in SrvTargets

\* a request the filter admits under its own name, whose port the constant
\* stage translates and whose name the rewrite stage changes, is looked up
\* under the rewritten name
C31_Witness ==
    /\ stage = "dns_race"
    /\ HasRule("filter") /\ HasRule("constant") /\ HasRule("rewrite")
    /\ FilterAdmits(req[1])
    /\ ~FilterAdmits(Rewritten(req[1]))
    /\ Rewritten(req[1]) # req[1]
    /\ LastBoundPort(req[1], req[2]) # req[2]
    /\ cur = <<Rewritten(req[1]), LastBoundPort(req[1], req[2])>>
    /\ RecordQueries # {}

\* a chosen SRV record's target is looked up under the target's own name
C31_WitnessTarget ==
    /\ stage = "dns_race"
    /\ Rewritten(req[1]) # req[1]
    /\ \E q \in TargetQueries : q.name # Fqdn(Rewritten(req[1]))

----------------------------------------------------------------------------
(* The life of one connection *)

\* the steps forward can take from one await to the next: READING is
\* "parse", RESOLVING "resolve", DIALING "dial" and "write" (connect, then
\* the write of the prefix), SPLICING "splice", DROPPED "shutdown"
Moves ==
    { <<"parse", "resolve">>, <<"parse", "shutdown">>,
      <<"resolve", "dial">>, <<"resolve", "shutdown">>, <<"resolve", "closed">>,
      <<"dial", "write">>, <<"dial", "closed">>,
      <<"write", "splice">>, <<"write", "closed">>,
      <<"splice", "closed">>, <<"shutdown", "closed">> }

\* C32: a connection only moves forward through reading, resolving, dialing,
\* splicing and closed (or dropped); the pipeline is called at most once;
\* connect is called at most once and only on Some(dest) from the pipeline's
\* one call; bytes reach the upstream only while the socket a successful
\* connect gave is open; a failed connect returns an error with no byte
\* written and the client socket closed.
C32_ForwardOnly ==
    [][/\ pc' # pc => <<pc, pc'>> \in Moves
       /\ Len(calls') <= 1
       /\ Len(calls') >= Len(calls)
       /\ (pc' = "dial" /\ pc # "dial") =>
             /\ ~dialed
             /\ stage = "done"
             /\ result.tag = "Some"
             /\ Len(calls) = 1
       /\ dialed => (dialed' /\ pc' # "resolve")
       /\ ("outgoing" \in sockets' /\ "outgoing" \notin sockets) =>
             (pc = "dial" /\ pc' = "write")
       /\ upstream' # upstream =>
             ("outgoing" \in sockets /\ pc \in {"write", "splice"})
       /\ (pc = "dial" /\ pc' = "closed") =>
             /\ upstream' = <<>>
             /\ ret' = "Err"
             /\ "incoming" \notin sockets'
             /\ "outgoing" \notin sockets']_vars

\* a connection that went all the way: read, resolved, dialed, spliced three
\* bytes, closed
C32_Witness ==
    /\ pc = "closed"
    /\ ret = "Ok"
    /\ Len(calls) = 1
    /\ result.tag = "Some"
    /\ dialed
    /\ Len(buf) = 1
    /\ upstream = <<1, 2, 3>>
    /\ sockets = {}

\* a connection dialed with an empty prefix that ended with an error and
\* nothing written
C32_WitnessNothingWritten ==
    /\ pc = "closed"
    /\ ret = "Err"
    /\ dialed
    /\ buf = <<>>
    /\ upstream = <<>>
    /\ sockets = {}

\* C33: when the forwarder has finished, by whichever path, neither the
\* client socket nor an upstream socket is open; an upstream socket is open
\* only between a successful connect and the return of forward.
C33_NoSocketLeftOpen ==
    /\ pc = "closed" => sockets = {}
    /\ "outgoing" \in sockets => pc \in {"write", "splice"}
    /\ sockets \subseteq {"incoming", "outgoing"}

\* the write of the prefix failed after part of it: the upstream socket, which
\* was open, and the client socket are closed
C33_Witness ==
    /\ pc = "closed"
    /\ ret = "Err"
    /\ upstream # <<>>
    /\ Len(upstream) < Len(buf)
    /\ sockets = {}

\* the deadline ended the read-ahead
C33_WitnessDeadline ==
    /\ pc = "closed"
    /\ parseEnd = "timeout"
    /\ sockets = {}

\* the pipeline returned an error
C33_WitnessPipelineError ==
    /\ pc = "closed"
    /\ Answered
    /\ result.tag = "Err"
    /\ sockets = {}

\* the pipeline returned None
C33_WitnessPipelineNone ==
    /\ pc = "closed"
    /\ Answered
    /\ result.tag = "None"
    /\ sockets = {}

\* the splice ended after bytes had been copied
C33_WitnessSplice ==
    /\ pc = "closed"
    /\ Len(upstream) > Len(buf)
    /\ sockets = {}

----------------------------------------------------------------------------
(* The read-ahead at end of stream *)

\* a read of the read-ahead returns 0 bytes in this step
EofRead == eofReads' = eofReads + 1

\* the parser at ix wants more of the buffer as it is: it said so when it was
\* given it, or the buffer is empty and the parser is the TLS one
WantsMoreOf(ix, b) ==
    \/ \E inv \in invocations : inv.ix = ix /\ inv.input = b /\ inv.outcome = "more"
    \/ b = <<>> /\ KindParser[parsers[ix]] = "ServiceName"

C34_WitnessEmpty ==
    /\ eofReads >= 2
    /\ nSent = 0
    /\ parsers = <<"h1", "tls">>
    /\ active = {2}
    /\ pc = "parse"

----------------------------------------------------------------------------
(* A listener without parsers *)

\* C35: on a listener whose parser list is empty no parser is asked and no
\* byte is read before the splice; the read-ahead ends at once with "no
\* name"; the pipeline is called once, with the empty name and the
\* listener's port; what the forwarder then does follows from what the
\* pipeline gives for that request, and a destination is dialed with an
\* empty prefix, so that the upstream receives exactly the client's bytes.
C35_NoParsersResolveEmptyName ==
    parsers = <<>> =>
        /\ invocations = {}
        /\ buf = <<>>
        /\ eofReads = 0
        /\ pc \notin {"splice", "closed"} => nRead = 0
        /\ parseEnd \in {"", "noname"}
        /\ pc # "parse" =>
              /\ parseEnd = "noname"
              /\ req[1] = <<>>
        /\ \A i \in DOMAIN calls : calls[i] = <<<<>>, req[2]>>
        /\ PastResolve =>
              /\ calls = << <<<<>>, req[2]>> >>
              /\ result \in StageResults(FirstStage, <<<<>>, req[2]>>)
        /\ dialed => result.tag = "Some"
        /\ upstream \o copyBuf = IF dialed THEN BytesRead ELSE <<>>

\* a connection of such a listener is spliced to the fallback's default, and
\* the first byte the upstream got is the client's first
C35_Witness ==
    /\ parsers = <<>>
    /\ pc = "splice"
    /\ HasRule("fallback")
    /\ calls = << <<<<>>, req[2]>> >>
    /\ result = ResSome(FallbackDefault[1], FallbackDefault[2])
    /\ buf = <<>>
    /\ upstream = <<1>>

\* without a fallback, a filter that does not admit the empty name makes the
\* forwarder return the error
C35_WitnessRejected ==
    /\ parsers = <<>>
    /\ pc = "closed"
    /\ HasRule("filter")
    /\ result = ResErr(<<"NotSupported", <<>>>>)
    /\ nRead = 0

----------------------------------------------------------------------------
(* Concurrent pipeline calls *)

\* the request is answered before the dns stage: the filter rejects its name,
\* or a constant rule has an IP for it
AnsweredBeforeDns(r) ==
    \/ HasRule("filter") /\ ~FilterAdmits(r[1])
    \/ (HasRule("filter") => FilterAdmits(r[1])) /\ ConfiguredIps(r[1]) # {}

C36_WitnessRejected ==
    /\ HasRule("dns")
    /\ served = <<1, 2>>
    /\ conns[1].at = "dns_wait"
    /\ conns[2].at = "closed"
    /\ conns[2].res = ResErr(<<"NotSupported", conns[2].req[1]>>)

----------------------------------------------------------------------------
(* The pipeline over rule lists in any document order *)

MaxDocRules == 3

\* the rules a document is made of: two fallbacks, a filter, constant rules
\* for the same name (one without IPs), a rewrite, a dns client
DocRulePool ==
    { FallbackRule("ipF", 8080), FallbackRule("ipG", 9090),
      FilterRule(<<NameA>>),
      ConstantIp(NameA, <<"ip3">>), ConstantIp(NameA, <<"ip4">>),
      ConstantIp(NameA, <<>>),
      RewriteRule(NameB, NameA),
      DnsRule(<<>>) }

\* every document of up to MaxDocRules rules, in every order
DocConfigs == SeqsUpTo(DocRulePool, MaxDocRules) \ {<<>>}

InitRules ==
    /\ rules \in DocConfigs
    /\ InitAtResolve
    /\ InitLsnIdle
    /\ InitUnitIdle
    /\ req \in RequestNames \X {80}
    /\ stage = "idle"
    /\ cur = req
    /\ dnsMode = "none"
    /\ dnsPending = {}
    /\ dnsLog = {}
    /\ srvPorts = {}
    /\ result = ResNone

\* no dns rule of the pool has an SRV suffix: the SRV race never starts
NextRules ==
    \/ Admit
    \/ WorkerDispatch
    \/ FallbackCall
    \/ FilterCall
    \/ ConstantCall
    \/ RewriteCall
    \/ DnsCall
    \/ ResolveIpDone
    \/ VoidCall
    \/ Respond

SpecRules == InitRules /\ [][NextRules]_vars

\* the documents with the rules of rs in another order, the rules of one
\* type keeping their order among themselves
TypeStablePerms(rs) ==
    { [i \in DOMAIN rs |-> rs[p[i]]] :
        p \in { q \in Permutations(DOMAIN rs) :
                  \A i \in DOMAIN rs : \A j \in DOMAIN rs :
                      (i < j /\ rs[q[i]].type = rs[q[j]].type) => q[i] < q[j] } }

\* the order claimed, and the stages a document asks for
ClaimedOrder == <<"fallback", "filter", "constant", "rewrite", "dns", "void">>
Present(t) == t = "void" \/ HasRule(t)
OrderIndex(t) == CHOOSE i \in DOMAIN ClaimedOrder : ClaimedOrder[i] = t

\* where in the claimed order the call is
CallIndex ==
    IF stage = "dns_race" THEN OrderIndex("dns")
    ELSE IF stage \in Range(ClaimedOrder) THEN OrderIndex(stage)
    ELSE 0

\* C37: the layers built from a document are the same for every order of its
\* rules that keeps the rules of each type in their order; a stage is in the
\* stack exactly when the document has a rule of its type; and a call enters
\* the stages in the order fallback, filter, constant, rewrite, dns, void, each
\* time the next one that is present.  The rule list never changes, so the
\* layers are compared once, before the call.
C37_StageOrderFixed ==
    [][/\ stage = "idle" =>
             /\ \A r2 \in TypeStablePerms(rules) : Validate(r2) = Validate(rules)
             /\ \A t \in Range(ClaimedOrder) : Configured(t) <=> Present(t)
       /\ (stage' # stage /\ stage' \in Range(ClaimedOrder) /\ stage \notin {"idle"}) =>
             /\ OrderIndex(stage') > CallIndex
             /\ Present(stage')
             /\ \A k \in (CallIndex + 1)..(OrderIndex(stage') - 1) : ~Present(ClaimedOrder[k])]_vars

\* a document that names the dns client first, the constant rules around the
\* filter and no fallback: the call has gone filter, constant and is at dns
C37_Witness ==
    /\ Len(rules) = 3
    /\ rules[1].type = "dns"
    /\ rules[2].type = "constant"
    /\ rules[3].type = "filter"
    /\ Cardinality(TypeStablePerms(rules)) = 6
    /\ stage = "dns_race"
    /\ cur[1] = NameBA

\* two constant rules around a filter rule: three orders keep the constant
\* rules in their order
C37_WitnessInterleaved ==
    /\ Len(rules) = 3
    /\ rules[1].type = "constant" /\ rules[2].type = "filter" /\ rules[3].type = "constant"
    /\ rules[1] # rules[3]
    /\ Cardinality(TypeStablePerms(rules)) = 3
    /\ stage = "done"

----------------------------------------------------------------------------
(* Several rules about the same thing *)

\* what the constant stage holds for a name it is asked about
HeldIps(name) == OverrideIps(Unwrap(config.override_rules), name)

\* C38: the addresses the constant stage can return for a name are exactly
\* the IPs of all constant/Ip rules for that name together: each of them can
\* be returned, with the stage's port, nothing else can, and a name for which
\* the rules give no IP at all (no rule, or empty lists only) is handed to
\* inner unchanged.
C38_IpListsAccumulate ==
    stage = "constant" =>
        /\ HeldIps(cur[1]) = ConfiguredIps(cur[1])
        /\ \A ip \in ConfiguredIps(cur[1]) :
              ENABLED (/\ ConstantCall
                       /\ stage' = "return"
                       /\ result' = ResSome(ip, cur[2]))
        /\ ~ENABLED (/\ ConstantCall
                     /\ result'.tag = "Some"
                     /\ result'.ip \notin ConfiguredIps(cur[1]))
        /\ ConfiguredIps(cur[1]) # {} => ~ENABLED (ConstantCall /\ stage' # "return")
        /\ ConfiguredIps(cur[1]) = {} =>
              /\ ENABLED (ConstantCall /\ stage' = InnerOf("constant") /\ cur' = cur)
              /\ ~ENABLED (ConstantCall /\ stage' = "return")

\* two rules give the name one IP each, a third an empty list: the stage has
\* returned the IP of the first rule although later rules name the same
\* service
C38_Witness ==
    /\ Len(ConstantRules) = 3
    /\ \A i \in 1..3 : ConstantRules[i].name = req[1]
    /\ ConstantRules[1].ips = <<"ip3">>
    /\ ConstantRules[2].ips = <<"ip4">>
    /\ ConstantRules[3].ips = <<>>
    /\ stage = "return"
    /\ result = ResSome("ip3", req[2])

\* the same configuration, the IP of the second rule
C38_WitnessSecond ==
    /\ Len(ConstantRules) = 2
    /\ ConstantRules[1].ips = <<"ip3">>
    /\ ConstantRules[2].ips = <<"ip4">>
    /\ stage = "return"
    /\ result = ResSome("ip4", req[2])

\* only empty lists for the name: the request is with the next stage
C38_WitnessEmptyOnly ==
    /\ Len(ConstantRules) = 2
    /\ \A i \in 1..2 : ConstantRules[i].name = req[1] /\ ConstantRules[i].ips = <<>>
    /\ ~HasRule("rewrite") /\ ~HasRule("dns")
    /\ stage = "void"
    /\ cur = req

\* the default the first fallback rule of the document names
FirstFallbackOfDocument == rules[SetMin({i \in DOMAIN rules : rules[i].type = "fallback"})]

\* the document without the fallback rules after the first
WithoutLaterFallbacks ==
    SelectSeq(rules, LAMBDA r : r.type # "fallback" \/ r = FirstFallbackOfDocument)

\* C39: with several fallback rules the default is the address of the first
\* in document order: the layers are those of the document without the later
\* fallback rules, and a response the fallback stage replaces is replaced by
\* that address.
C39_FirstFallbackOnly ==
    [][HasRule("fallback") =>
          /\ stage = "idle" =>
                /\ Validate(WithoutLaterFallbacks) = Validate(rules)
                /\ Unwrap(config.fallback) = FirstFallbackOfDocument.address
          /\ (stage = "return" /\ stage' = "done") =>
                result' = IF result.tag = "Some" THEN result
                          ELSE ResSome(FirstFallbackOfDocument.address[1],
                                       FirstFallbackOfDocument.address[2])]_vars

\* the document names ipG before ipF, with another rule between them: a call
\* nothing resolved has got ipG's address
C39_Witness ==
    /\ Len(rules) = 3
    /\ rules[1] = FallbackRule("ipG", 9090)
    /\ rules[2].type # "fallback"
    /\ rules[3] = FallbackRule("ipF", 8080)
    /\ stage = "done"
    /\ result = ResSome("ipG", 9090)

====
